---- MODULE Spec2Model ----
(***************************************************************************)
(* Telemetry store and ingestion gateways of cypress-aurora-report.        *)
(*                                                                         *)
(* The store is the SQLite database behind SqliteConnection: the tables    *)
(* test_runs, test_results and screenshots with their foreign keys and     *)
(* triggers.  The repositories (TestRunRepositoryImpl,                     *)
(* TestResultRepositoryImpl), DatabaseManager, the Cypress plugin          *)
(* (AuroraPlugin), the Mocha reporter (AuroraReporter) and the             *)
(* WebSocketManager act on it.                                             *)
(*                                                                         *)
(* Columns that the code only copies (browser_name, spec_files, ...) are   *)
(* represented by the columns kept here; each kept column stands for a     *)
(* distinct kind of handling in the code.                                  *)
(***************************************************************************)
EXTENDS Integers, Sequences, FiniteSets, TLC

\* Bounds of the model.
MaxGen == 3
MaxUuid == 2
MaxTime == 1
MaxRoomRuns == 2
MaxTests == 2
MaxRetries == 1
MaxFlakyRuns == 6
MaxFound == 3
MaxPresets == 3
MaxTimers == 2
MaxStatements == 2

\* recentRuns.slice(0, 5) of the welcome message
WelcomeRuns == 5

\* findFlaky: DATE('now', '-30 days') and HAVING total_runs >= 5
FlakyWindowDays == 30
FlakyMinRuns == 5

VARIABLES
    test_runs,      \* table test_runs: id -> row
    test_results,   \* table test_results: id -> row
    screenshots,    \* table screenshots: id -> row
    nextGen,        \* number of generateId() calls made so far
    nextUuid,       \* number of uuidv4() calls made so far
    now,            \* wall clock (new Date())
    currentRun,     \* AuroraPlugin.currentRun
    reporterRun,    \* AuroraReporter.currentRun
    testResults,    \* AuroraReporter.testResults: full title -> TestResult
    nextTest,       \* number of uuidv4() calls made for test results so far
    ret,            \* what the last call returned: err is "none" or the error thrown
    connectedClients, \* WebSocketManager.connectedClients
    ioSockets,      \* io.sockets.sockets: the sockets that are open
    rooms,          \* Socket.IO room membership: socket -> set of rooms joined
    inbox,          \* the events the hub's latest call delivered to each socket, in order
    welcoming,      \* the sockets whose sendWelcomeMessage awaits the store
    schema,         \* sqlite_master: the names of the tables, indexes and triggers
    metadata,       \* table metadata: key -> row
    filter_presets, \* table filter_presets: id -> row
    isConnected,    \* SqliteConnection.isConnected
    backupInterval, \* DatabaseManager.backupInterval: the timer is set
    managerLog,     \* what Logger('DatabaseManager') has written with error()
    isRunning,      \* AuroraServer.isRunning
    stopping,       \* how far a call of AuroraServer.stop() has come
    timers,         \* the number of backup timers that setInterval has set and none cleared
    sqliteTx,       \* the open transaction of the connection: the tables at its BEGIN
    managerTx,      \* how far a call of DatabaseManager.transaction(callback) has come
    connTx          \* a call of SqliteConnection.transaction(statements)

vars == <<test_runs, test_results, screenshots, nextGen, nextUuid, now,
          currentRun, reporterRun, testResults, nextTest, ret,
          connectedClients, ioSockets, rooms, inbox, welcoming,
          schema, metadata, filter_presets, isConnected, backupInterval,
          managerLog, isRunning, stopping, timers, sqliteTx, managerTx, connTx>>

storeVars == <<test_runs, test_results, screenshots>>
pluginVars == <<currentRun>>
reporterVars == <<reporterRun, testResults, nextTest>>
hubVars == <<connectedClients, ioSockets, rooms, inbox, welcoming>>
txVars == <<sqliteTx, managerTx, connTx>>
adminVars == <<schema, metadata, filter_presets, isConnected, backupInterval,
               managerLog, isRunning, stopping, timers, txVars>>

----------------------------------------------------------------------------
\* Values

\* SQL NULL / a present value: a column that may be NULL holds a set of at
\* most one element.
NULL == {}
Some(v) == {v}
The(opt) == CHOOSE r \in opt : TRUE

\* A JavaScript property that may be undefined holds a sequence of at most
\* one element.
Undefined == <<>>
Def(v) == <<v>>

\* JavaScript null, which is neither undefined nor a present value.
Null == <<"null", "null">>

\* generateId(): Date.now().toString(36) + Math.random().toString(36).substr(2)
GenId(n) == <<"gen", n>>
\* uuidv4(): never equal to a generateId() value (it contains dashes).
Uuid(n) == <<"uuid", n>>

GenIds == {GenId(n) : n \in 1..MaxGen}
Uuids == {Uuid(n) : n \in 1..MaxUuid}
AnyId == GenIds \cup Uuids
ShotIds == {<<"shot", 1>>, <<"shot", 2>>}

Times == 0..MaxTime

RunStatus == {"running", "completed", "failed", "cancelled"}
TestStates == {"passed", "failed", "skipped", "pending", "retried"}

Restrict(f, S) == [x \in S |-> f[x]]

----------------------------------------------------------------------------
\* The relational store

Db(runs, results, shots) == [runs |-> runs, results |-> results, shots |-> shots]

EmptyTable == <<>>

\* Variant: foreign keys are not enforced (PRAGMA foreign_keys left OFF).
ForeignKeyOk_off(parentTable, parentId) == TRUE

\* PRAGMA foreign_keys = ON: the FOREIGN KEY clauses of test_results and
\* screenshots are enforced on INSERT and UPDATE.
ForeignKeyOk(parentTable, parentId) == parentId \in DOMAIN parentTable

\* Variant: screenshots.test_result_id without ON DELETE CASCADE and without
\* the trigger.
CascadeScreenshots_kept(shots, gone) == shots

\* ON DELETE CASCADE of screenshots.test_result_id (and the trigger
\* trg_test_results_delete_screenshots): the screenshots left after the results
\* `gone` were deleted.
CascadeScreenshots(shots, gone) ==
    Restrict(shots, {s \in DOMAIN shots : shots[s].test_result_id \notin gone})

\* ON DELETE CASCADE of test_results.run_id: the results left after the runs
\* `gone` were deleted.
CascadeResults(results, gone) ==
    Restrict(results, {r \in DOMAIN results : results[r].run_id \notin gone})

\* DELETE FROM test_results WHERE id IN ids
SqlDeleteResults(db, ids) ==
    LET gone == ids \cap DOMAIN db.results
    IN  [db EXCEPT !.results = Restrict(@, DOMAIN @ \ gone),
                   !.shots = CascadeScreenshots(@, gone)]

\* DELETE FROM test_runs WHERE id IN ids
SqlDeleteRuns(db, ids) ==
    LET goneRuns == ids \cap DOMAIN db.runs
        left == CascadeResults(db.results, goneRuns)
        goneResults == DOMAIN db.results \ DOMAIN left
    IN  [runs |-> Restrict(db.runs, DOMAIN db.runs \ goneRuns),
         results |-> left,
         shots |-> CascadeScreenshots(db.shots, goneResults)]

----------------------------------------------------------------------------
\* Entities and patches
\*
\* A TestRun entity has the keys id, startTime, endTime, totalTests, failed,
\* status and results; a TestResult entity the keys id, runId, state,
\* screenshot, error and startTime.  An optional key holds Undefined or Def(v).
\* A patch (Partial<TestRun>, Partial<TestResult>) is a function from some of
\* the keys to Undefined or Def(v).

RunColumns == {"id", "start_time", "end_time", "total_tests", "failed", "status"}
ResultColumns == {"id", "run_id", "state", "screenshot_path", "error_name", "start_time"}

\* camelToSnakeCase(str): str.replace(/[A-Z]/g, letter => `_${letter.toLowerCase()}`)
camelToSnakeCase(key) ==
    CASE key = "startTime" -> "start_time"
      [] key = "endTime" -> "end_time"
      [] key = "totalTests" -> "total_tests"
      [] key = "runId" -> "run_id"
      [] OTHER -> key

\* The keys of `updates` that the update loop turns into SET clauses.
SetKeys(updates) == {k \in DOMAIN updates : Len(updates[k]) > 0 /\ k # "id"}

\* CHECK (status IN (...)) of test_runs
RunCheckOk(row) == row.status \in RunStatus

\* CHECK (state IN (...)) of test_results
ResultCheckOk(row) == row.state \in TestStates

Ret(err, db) == [err |-> err, db |-> db]

----------------------------------------------------------------------------
\* TestRunRepositoryImpl

\* create(run): the row is inserted under a generated id, whatever id the
\* argument carries; the returned entity has the generated id.
RunCreate(db, run, id) ==
    LET row == [start_time |-> run.startTime,
                end_time |-> IF Len(run.endTime) > 0 THEN Some(run.endTime[1]) ELSE NULL,
                total_tests |-> run.totalTests,
                failed |-> run.failed,
                status |-> run.status]
    IN  IF RunCheckOk(row)
        THEN [err |-> "none",
              db |-> [db EXCEPT !.runs = @ @@ (id :> row)],
              entity |-> Def([run EXCEPT !.id = id])]
        ELSE [err |-> "Constraint", db |-> db, entity |-> Undefined]

\* The columns named by the SET clauses of update(id, updates).
RunSetColumns(updates) == {camelToSnakeCase(k) : k \in SetKeys(updates)}

\* The parameter bound to the SET clause of column c.
RunSetValue(updates, c) ==
    LET k == CHOOSE k \in SetKeys(updates) : camelToSnakeCase(k) = c
    IN  IF c = "end_time" THEN Some(updates[k][1]) ELSE updates[k][1]

RunRowAfter(row, updates) ==
    [c \in DOMAIN row |->
        IF c \in RunSetColumns(updates) THEN RunSetValue(updates, c) ELSE row[c]]

\* update(id, updates)
RunUpdate(db, id, updates) ==
    IF SetKeys(updates) = {} THEN Ret("none", db)              \* nothing to update
    ELSE IF ~(RunSetColumns(updates) \subseteq RunColumns) THEN Ret("SqlError", db)
    ELSE IF id \notin DOMAIN db.runs THEN Ret("NotFound", db)  \* changes = 0
    ELSE IF ~RunCheckOk(RunRowAfter(db.runs[id], updates)) THEN Ret("Constraint", db)
    ELSE Ret("none", [db EXCEPT !.runs[id] = RunRowAfter(@, updates)])

\* delete(id)
RunDelete(db, id) ==
    IF id \notin DOMAIN db.runs THEN Ret("NotFound", db)       \* changes = 0
    ELSE Ret("none", SqlDeleteRuns(db, {id}))

OlderRuns_inclusive(db, date) == {r \in DOMAIN db.runs : db.runs[r].start_time <= date}

\* deleteOlderThan(date): DELETE FROM test_runs WHERE start_time < ?
OlderRuns(db, date) == {r \in DOMAIN db.runs : db.runs[r].start_time < date}

RunDeleteOlderThan(db, date) ==
    [err |-> "none", db |-> SqlDeleteRuns(db, OlderRuns(db, date)),
     changes |-> Cardinality(OlderRuns(db, date))]

\* mapRowToTestRun(row): results are loaded separately.
mapRowToTestRun(id, row) ==
    [id |-> id,
     startTime |-> row.start_time,
     endTime |-> IF row.end_time # NULL THEN Def(The(row.end_time)) ELSE Undefined,
     totalTests |-> row.total_tests,
     failed |-> row.failed,
     status |-> row.status,
     results |-> <<>>]

\* findById(id) of a run: null when there is no such row.
RunFindById(db, id) ==
    IF id \in DOMAIN db.runs THEN Def(mapRowToTestRun(id, db.runs[id])) ELSE Null

----------------------------------------------------------------------------
\* TestResultRepositoryImpl

\* create(result)
ResultCreate(db, result, id) ==
    LET row == [run_id |-> result.runId,
                state |-> result.state,
                screenshot_path |-> IF Len(result.screenshot) > 0
                                    THEN Some(result.screenshot[1]) ELSE NULL,
                error_name |-> IF Len(result.error) > 0
                               THEN Some(result.error[1]) ELSE NULL,
                start_time |-> result.startTime]
    IN  IF ResultCheckOk(row) /\ ForeignKeyOk(db.runs, row.run_id)
        THEN [err |-> "none",
              db |-> [db EXCEPT !.results = @ @@ (id :> row)],
              entity |-> Def([result EXCEPT !.id = id])]
        ELSE [err |-> "Constraint", db |-> db, entity |-> Undefined]

\* The columns named by the SET clauses of update(id, updates): the key error
\* sets the error columns, every other key the column camelToSnakeCase gives.
ResultSetColumns(updates) ==
    {IF k = "error" THEN "error_name" ELSE camelToSnakeCase(k) : k \in SetKeys(updates)}

ResultSetValue(updates, c) ==
    LET k == CHOOSE k \in SetKeys(updates) :
                 (IF k = "error" THEN "error_name" ELSE camelToSnakeCase(k)) = c
    IN  IF c = "error_name" THEN Some(updates[k][1]) ELSE updates[k][1]

ResultRowAfter(row, updates) ==
    [c \in DOMAIN row |->
        IF c \in ResultSetColumns(updates) THEN ResultSetValue(updates, c) ELSE row[c]]

\* update(id, updates)
ResultUpdate(db, id, updates) ==
    IF SetKeys(updates) = {} THEN Ret("none", db)              \* nothing to update
    ELSE IF ~(ResultSetColumns(updates) \subseteq ResultColumns) THEN Ret("SqlError", db)
    ELSE IF id \notin DOMAIN db.results THEN Ret("NotFound", db)
    ELSE IF ~(/\ ResultCheckOk(ResultRowAfter(db.results[id], updates))
              /\ ForeignKeyOk(db.runs, ResultRowAfter(db.results[id], updates).run_id))
         THEN Ret("Constraint", db)
    ELSE Ret("none", [db EXCEPT !.results[id] = ResultRowAfter(@, updates)])

\* delete(id)
ResultDelete(db, id) ==
    IF id \notin DOMAIN db.results THEN Ret("NotFound", db)
    ELSE Ret("none", SqlDeleteResults(db, {id}))

\* mapRowToTestResult(row): screenshot is the column as it is, null when the
\* column is NULL; error is undefined when error_name is.
mapRowToTestResult(id, row) ==
    [id |-> id,
     runId |-> row.run_id,
     state |-> row.state,
     screenshot |-> IF row.screenshot_path # NULL
                    THEN Def(The(row.screenshot_path)) ELSE Null,
     error |-> IF row.error_name # NULL THEN Def(The(row.error_name)) ELSE Undefined,
     startTime |-> row.start_time]

\* findById(id) of a test result: null when there is no such row.
ResultFindById(db, id) ==
    IF id \in DOMAIN db.results THEN Def(mapRowToTestResult(id, db.results[id])) ELSE Null

----------------------------------------------------------------------------
\* DatabaseManager

\* executeStatement('INSERT INTO screenshots (id, test_result_id, ...) ...'):
\* taken_at defaults to CURRENT_TIMESTAMP.
ScreenshotInsert(db, id, resultId, at) ==
    IF id \in DOMAIN db.shots \/ ~ForeignKeyOk(db.results, resultId)
    THEN Ret("Constraint", db)
    ELSE Ret("none", [db EXCEPT !.shots = @ @@ (id :> [test_result_id |-> resultId,
                                                        taken_at |-> at])])

\* taken_at < ? with cutoffDate.toISOString() as the parameter.  taken_at holds
\* the text of CURRENT_TIMESTAMP, 'YYYY-MM-DD HH:MM:SS', and the parameter is
\* 'YYYY-MM-DDTHH:MM:SS.sssZ': the texts are compared, and ' ' sorts before
\* 'T', so the row is less whenever its day is the cutoff's day or an
\* earlier one.  (start_time columns hold toISOString() texts, which compare
\* as the instants do.)  An instant of the model is a day.
TakenBefore(taken_at, cutoff) == taken_at <= cutoff

\* cleanupOldData(retentionDays)
CleanupOldData(db, cutoff) ==
    LET oldResults == {r \in DOMAIN db.results : db.results[r].start_time < cutoff}
        oldShots == {s \in DOMAIN db.shots : TakenBefore(db.shots[s].taken_at, cutoff)}
        afterRuns == RunDeleteOlderThan(db, cutoff)
        db1 == afterRuns.db
        db2 == [db1 EXCEPT !.shots =
                   Restrict(@, {s \in DOMAIN @ : ~TakenBefore(db1.shots[s].taken_at, cutoff)})]
    IN  [err |-> "none", db |-> db2,
         deletedRuns |-> afterRuns.changes,
         deletedResults |-> Cardinality(oldResults),
         deletedScreenshots |-> Cardinality(oldShots)]

----------------------------------------------------------------------------
\* Arguments of the calls

NoId == <<"none", 0>>

\* TestRun arguments of create(run): a run that starts now.
RunInputs ==
    {[id |-> NoId, startTime |-> now, endTime |-> Undefined, totalTests |-> 0,
      failed |-> 0, status |-> st, results |-> <<>>] :
        st \in {"running", "unknown"}}

\* Partial<TestRun> arguments of update(id, updates)
RunPatches ==
    {<<>>,
     [endTime |-> Undefined],
     [id |-> Def(GenId(1))],
     [status |-> Def("unknown")],
     [endTime |-> Def(MaxTime), totalTests |-> Def(1), failed |-> Def(1),
      status |-> Def("failed")],
     [status |-> Def("completed"), results |-> Def(<<>>)]}

\* TestResult arguments of create(result): a test that starts now.
ResultInputs ==
    {[id |-> NoId, runId |-> r, state |-> st, screenshot |-> Undefined,
      error |-> Undefined, startTime |-> now] :
        r \in AnyId, st \in {"passed", "unknown"}}

\* Partial<TestResult> arguments of update(id, updates)
ResultPatches ==
    {<<>>,
     [error |-> Undefined],
     [state |-> Def("unknown")],
     [state |-> Def("failed"), error |-> Def("AssertionError")],
     [screenshot |-> Def("b.png")]}
    \cup {[runId |-> Def(r)] : r \in AnyId}

----------------------------------------------------------------------------
\* The state

db == Db(test_runs, test_results, screenshots)

\* The store after a call that left it as d.
Store(d) ==
    /\ test_runs' = d.runs
    /\ test_results' = d.results
    /\ screenshots' = d.shots

\* The sockets that may connect, and the room of one run.
Sockets == {"s1", "s2"}
RunRoom(runId) == <<"test-run", runId>>

\* generateId() after a create that returned r: the id of a failed insert is
\* dropped, so only an id that entered the store counts as used.
Generated(r) == nextGen' = IF r.err = "none" THEN nextGen + 1 ELSE nextGen

\* A gateway handler has handled the event op: it returns nothing and throws
\* nothing.
Handled(op) == ret' = [err |-> "none", op |-> op]

----------------------------------------------------------------------------
\* DatabaseSchema

Tables == {"test_runs", "test_results", "screenshots", "filter_presets", "metadata"}

Indexes ==
    {"idx_test_runs_start_time", "idx_test_runs_status", "idx_test_runs_browser",
     "idx_test_results_run_id", "idx_test_results_state", "idx_test_results_duration",
     "idx_test_results_file", "idx_test_results_start_time",
     "idx_test_results_full_title", "idx_test_results_retries",
     "idx_screenshots_test_result_id", "idx_screenshots_taken_at",
     "idx_filter_presets_name", "idx_filter_presets_is_default",
     "idx_test_results_run_state", "idx_test_results_state_duration",
     "idx_test_runs_status_start_time"}

Triggers ==
    {"trg_test_runs_updated_at", "trg_test_results_updated_at",
     "trg_filter_presets_updated_at", "trg_metadata_updated_at",
     "trg_filter_presets_single_default", "trg_test_results_delete_screenshots"}

\* Variant: CREATE without IF NOT EXISTS fails on a name that exists.
Create_plain(objects, name) ==
    IF name \in objects THEN [err |-> "SqlError", objects |-> objects]
    ELSE [err |-> "none", objects |-> objects \cup {name}]

\* CREATE TABLE / INDEX / TRIGGER IF NOT EXISTS name
Create(objects, name) == [err |-> "none", objects |-> objects \cup {name}]

\* The statements of createTables, createIndexes or createTriggers, one after
\* the other; the first that fails ends the loop with its error.
RECURSIVE CreateAll(_, _)
CreateAll(objects, names) ==
    IF names = {} THEN [err |-> "none", objects |-> objects]
    ELSE LET name == CHOOSE n \in names : TRUE
             r == Create(objects, name)
         IN  IF r.err # "none" THEN r ELSE CreateAll(r.objects, names \ {name})

\* getTargetSchemaVersion()
TargetSchemaVersion == 1

\* version.toString() and parseInt(value, 10) of the versions there are
VersionString(version) ==
    CASE version = 0 -> "0" [] version = 1 -> "1" [] OTHER -> "2"
parseInt(value) == CHOOSE n \in 0..2 : VersionString(n) = value

\* getCurrentSchemaVersion()
getCurrentSchemaVersion(meta) ==
    IF "schema_version" \in DOMAIN meta THEN parseInt(meta["schema_version"].value) ELSE 0

\* setSchemaVersion(version): INSERT OR REPLACE puts a new row in the place of
\* the old one, created_at and updated_at being CURRENT_TIMESTAMP.
setSchemaVersion(meta, version, at) ==
    [k \in DOMAIN meta \cup {"schema_version"} |->
        IF k = "schema_version"
        THEN [value |-> VersionString(version), created_at |-> at, updated_at |-> at]
        ELSE meta[k]]

\* runMigration(version): version 1 is the schema of createTables.
runMigration(version) == IF version = 1 THEN "none" ELSE "UnknownMigration"

\* The loop of runMigrations from version on.
RECURSIVE Migrate(_, _, _)
Migrate(meta, version, at) ==
    IF version > TargetSchemaVersion THEN [err |-> "none", metadata |-> meta]
    ELSE IF runMigration(version) # "none"
         THEN [err |-> runMigration(version), metadata |-> meta]
    ELSE Migrate(setSchemaVersion(meta, version, at), version + 1, at)

\* runMigrations()
runMigrations(meta, at) ==
    IF getCurrentSchemaVersion(meta) < TargetSchemaVersion
    THEN Migrate(meta, getCurrentSchemaVersion(meta) + 1, at)
    ELSE [err |-> "none", metadata |-> meta]

\* DatabaseSchema.initialize() on an open connection
SchemaInitialize(objects, meta, at) ==
    LET tables == CreateAll(objects, Tables)
        indexes == CreateAll(tables.objects, Indexes)
        triggers == CreateAll(indexes.objects, Triggers)
        migrated == runMigrations(meta, at)
    IN  IF tables.err # "none" THEN [err |-> tables.err, objects |-> tables.objects,
                                     metadata |-> meta]
        ELSE IF indexes.err # "none" THEN [err |-> indexes.err, objects |-> indexes.objects,
                                           metadata |-> meta]
        ELSE IF triggers.err # "none" THEN [err |-> triggers.err,
                                            objects |-> triggers.objects, metadata |-> meta]
        ELSE [err |-> migrated.err, objects |-> triggers.objects,
              metadata |-> migrated.metadata]

----------------------------------------------------------------------------
\* DatabaseManager: start-up and maintenance

\* The statement of runMaintenance that the database rejects, if any, and
\* whether more than a tenth of the pages is free.
MaintenanceFaults == {"none", "analyze", "getStats", "vacuum"}

\* Variant: a maintenance failure is thrown on.
runMaintenance_thrown(fault, freePages) ==
    IF fault \in {"analyze", "getStats"} \/ (fault = "vacuum" /\ freePages)
    THEN [err |-> "MaintenanceError", logged |-> {"Database maintenance failed"}]
    ELSE [err |-> "none", logged |-> {}]

\* runMaintenance(): analyze, getStats, and vacuum when freePageRatio > 0.1;
\* the catch logs and does not throw.
runMaintenance(fault, freePages) ==
    IF fault \in {"analyze", "getStats"} \/ (fault = "vacuum" /\ freePages)
    THEN [err |-> "none", logged |-> {"Database maintenance failed"}]
    ELSE [err |-> "none", logged |-> {}]

\* No transaction is open and none has been asked for.
NoCall ==
    [promise |-> "none", queue |-> <<>>, total |-> 0, completed |-> 0,
     hasError |-> FALSE, results |-> <<>>]

NoTransaction ==
    /\ sqliteTx = {}
    /\ managerTx = "idle"
    /\ connTx = NoCall

\* A DatabaseManager that has been constructed: nothing is open, the database
\* file is as new.
Constructed ==
    /\ schema = {}
    /\ metadata = EmptyTable
    /\ filter_presets = EmptyTable
    /\ isConnected = FALSE
    /\ backupInterval = FALSE
    /\ managerLog = {}
    /\ isRunning = FALSE
    /\ stopping = "no"
    /\ timers = 0
    /\ NoTransaction

\* The server after start() under the default configuration: the schema is
\* there at version 1, the connection is open, backups are scheduled.
Started ==
    /\ schema = Tables \cup Indexes \cup Triggers
    /\ metadata = setSchemaVersion(EmptyTable, TargetSchemaVersion, 0)
    /\ filter_presets = EmptyTable
    /\ isConnected = TRUE
    /\ backupInterval = TRUE
    /\ managerLog = {}
    /\ isRunning = TRUE
    /\ stopping = "no"
    /\ timers = 1
    /\ NoTransaction

----------------------------------------------------------------------------
Init ==
    /\ test_runs = EmptyTable
    /\ test_results = EmptyTable
    /\ screenshots = EmptyTable
    /\ nextGen = 0
    /\ nextUuid = 0
    /\ now = 0
    /\ currentRun = {}
    /\ reporterRun = {}
    /\ testResults = <<>>
    /\ nextTest = 0
    /\ ret = [err |-> "none"]
    /\ connectedClients = {}
    /\ ioSockets = {}
    /\ rooms = [s \in Sockets |-> {}]
    /\ inbox = [s \in Sockets |-> <<>>]
    /\ welcoming = {}
    /\ Started

\* Time passes.
Tick ==
    /\ now < MaxTime
    /\ now' = now + 1
    /\ UNCHANGED <<adminVars, hubVars, storeVars, nextGen, nextUuid, pluginVars, reporterVars, ret>>

----------------------------------------------------------------------------
\* Calls of the repositories and of DatabaseManager

RunCreateCall(run) ==
    /\ nextGen < MaxGen
    /\ LET r == RunCreate(db, run, GenId(nextGen + 1))
       IN  /\ Store(r.db)
           /\ ret' = [err |-> r.err]
           /\ Generated(r)
    /\ UNCHANGED <<adminVars, hubVars, nextUuid, now, pluginVars, reporterVars>>

RunUpdateCall(id, updates) ==
    /\ LET r == RunUpdate(db, id, updates)
       IN  /\ Store(r.db)
           /\ ret' = [err |-> r.err]
    /\ UNCHANGED <<adminVars, hubVars, nextGen, nextUuid, now, pluginVars, reporterVars>>

RunDeleteCall(id) ==
    /\ LET r == RunDelete(db, id)
       IN  /\ Store(r.db)
           /\ ret' = [err |-> r.err]
    /\ UNCHANGED <<adminVars, hubVars, nextGen, nextUuid, now, pluginVars, reporterVars>>

ResultCreateCall(result) ==
    /\ nextGen < MaxGen
    /\ LET r == ResultCreate(db, result, GenId(nextGen + 1))
       IN  /\ Store(r.db)
           /\ ret' = [err |-> r.err]
           /\ Generated(r)
    /\ UNCHANGED <<adminVars, hubVars, nextUuid, now, pluginVars, reporterVars>>

ResultUpdateCall(id, updates) ==
    /\ LET r == ResultUpdate(db, id, updates)
       IN  /\ Store(r.db)
           /\ ret' = [err |-> r.err]
    /\ UNCHANGED <<adminVars, hubVars, nextGen, nextUuid, now, pluginVars, reporterVars>>

ResultDeleteCall(id) ==
    /\ LET r == ResultDelete(db, id)
       IN  /\ Store(r.db)
           /\ ret' = [err |-> r.err]
    /\ UNCHANGED <<adminVars, hubVars, nextGen, nextUuid, now, pluginVars, reporterVars>>

ScreenshotInsertCall(id, resultId) ==
    /\ LET r == ScreenshotInsert(db, id, resultId, now)
       IN  /\ Store(r.db)
           /\ ret' = [err |-> r.err]
    /\ UNCHANGED <<adminVars, hubVars, nextGen, nextUuid, now, pluginVars, reporterVars>>

CleanupOldDataCall(retentionDays) ==
    /\ LET r == CleanupOldData(db, now - retentionDays)
       IN  /\ Store(r.db)
           /\ ret' = [err |-> r.err, op |-> "cleanupOldData",
                      retentionDays |-> retentionDays,
                      deletedRuns |-> r.deletedRuns,
                      deletedResults |-> r.deletedResults,
                      deletedScreenshots |-> r.deletedScreenshots]
    /\ UNCHANGED <<adminVars, hubVars, nextGen, nextUuid, now, pluginVars, reporterVars>>

\* filter_presets: the statements a caller runs through executeStatement.

PresetIds == 1..MaxPresets

\* INSERT INTO filter_presets (id, ..., is_default) VALUES (...): no trigger
\* is defined on INSERT.
PresetInsert(presets, id, isDefault) ==
    IF id \in DOMAIN presets THEN [err |-> "Constraint", presets |-> presets]
    ELSE [err |-> "none", presets |-> presets @@ (id :> [is_default |-> isDefault])]

\* trg_filter_presets_single_default, AFTER UPDATE OF is_default WHEN
\* NEW.is_default = TRUE: every other default row is set to FALSE.
SingleDefault(objects, presets, id) ==
    IF "trg_filter_presets_single_default" \in objects /\ presets[id].is_default
    THEN [p \in DOMAIN presets |-> IF p # id THEN [presets[p] EXCEPT !.is_default = FALSE]
                                  ELSE presets[p]]
    ELSE presets

\* UPDATE filter_presets SET is_default = ? WHERE id = ?
PresetUpdate(objects, presets, id, isDefault) ==
    IF id \notin DOMAIN presets THEN [err |-> "none", presets |-> presets]
    ELSE [err |-> "none",
          presets |-> SingleDefault(objects, [presets EXCEPT ![id].is_default = isDefault], id)]

\* DatabaseSchema.initialize(): every statement rejects on a closed connection.
SchemaInitializeCall ==
    /\ LET r == SchemaInitialize(schema, metadata, now)
       IN  IF isConnected
           THEN /\ schema' = r.objects
                /\ metadata' = r.metadata
                /\ ret' = [err |-> r.err, op |-> "schema.initialize"]
           ELSE /\ UNCHANGED <<schema, metadata>>
                /\ ret' = [err |-> "NotConnected", op |-> "schema.initialize"]
    /\ UNCHANGED <<timers, txVars, hubVars, storeVars, nextGen, nextUuid, now, pluginVars,
                   reporterVars,
                   filter_presets, isConnected, backupInterval, managerLog, isRunning,
                   stopping>>

\* DatabaseManager.initialize() under a configuration with or without
\* backupInterval > 0: connect, schema.initialize(), setupAutomaticBackups(),
\* runMaintenance().  setupAutomaticBackups() sets a timer and stores its
\* handle, whatever handle is stored already.
ManagerInitialize(backups, fault, freePages) ==
    /\ LET r == SchemaInitialize(schema, metadata, now)
           m == runMaintenance(fault, freePages)
       IN  /\ isConnected' = TRUE
           /\ schema' = r.objects
           /\ metadata' = r.metadata
           /\ backupInterval' = IF r.err = "none" /\ backups THEN TRUE ELSE backupInterval
           /\ timers' = IF r.err = "none" /\ backups THEN timers + 1 ELSE timers
           /\ managerLog' = IF r.err # "none"
                            THEN managerLog \cup {"Failed to initialize database manager"}
                            ELSE IF m.err # "none"
                            THEN managerLog \cup m.logged
                                     \cup {"Failed to initialize database manager"}
                            ELSE managerLog \cup m.logged
           /\ ret' = [err |-> IF r.err # "none" THEN r.err ELSE m.err,
                      op |-> "initialize", fault |-> fault, freePages |-> freePages]
    /\ UNCHANGED <<txVars, hubVars, storeVars, nextGen, nextUuid, now, pluginVars,
                   reporterVars, filter_presets, isRunning, stopping>>

\* The callback of the backup timer: createBackup() rejects when the
\* connection is closed or the copy fails; the callback's catch logs.
AutomaticBackup(backupOk) ==
    /\ timers > 0
    /\ managerLog' = IF backupOk /\ isConnected THEN managerLog
                     ELSE managerLog \cup {"Failed to create database backup",
                                           "Automatic backup failed"}
    /\ ret' = [err |-> "none", op |-> "backup",
               fault |-> IF backupOk /\ isConnected THEN "none" ELSE "backup",
               freePages |-> FALSE]
    /\ UNCHANGED <<timers, txVars, hubVars, storeVars, nextGen, nextUuid, now, pluginVars,
                   reporterVars,
                   schema, metadata, filter_presets, isConnected, backupInterval,
                   isRunning, stopping>>

\* DatabaseManager.close(): the timer whose handle is stored is cleared, then
\* the connection is closed; db.close() may fail, which is logged and thrown.
ManagerClose(closeOk) ==
    /\ backupInterval' = FALSE
    /\ timers' = IF backupInterval THEN timers - 1 ELSE timers
    /\ IF ~isConnected \/ closeOk
       THEN /\ isConnected' = FALSE
            /\ ret' = [err |-> "none", op |-> "close"]
            /\ UNCHANGED managerLog
       ELSE /\ managerLog' = managerLog \cup {"Failed to close database manager"}
            /\ ret' = [err |-> "CloseError", op |-> "close"]
            /\ UNCHANGED isConnected
    /\ UNCHANGED <<txVars, hubVars, storeVars, nextGen, nextUuid, now, pluginVars,
                   reporterVars, schema, metadata, filter_presets, isRunning, stopping>>

\* DatabaseManager.restoreFromBackup(backupPath): close(), copy the backup
\* over the database file, initialize().  The backup holds the tables as
\* they are.
RestoreFromBackup(exists, closeOk, backups, fault, freePages) ==
    LET closed == ~isConnected \/ closeOk
        cleared == IF backupInterval THEN timers - 1 ELSE timers
        r == SchemaInitialize(schema, metadata, now)
        m == runMaintenance(fault, freePages)
        failed == {"Failed to restore database from backup"}
    IN  /\ IF ~exists
           THEN /\ managerLog' = managerLog \cup failed
                /\ ret' = [err |-> "NotFound", op |-> "restoreFromBackup"]
                /\ UNCHANGED <<schema, metadata, isConnected, backupInterval, timers>>
           ELSE IF ~closed
           THEN /\ managerLog' = managerLog \cup {"Failed to close database manager"}
                                      \cup failed
                /\ backupInterval' = FALSE
                /\ timers' = cleared
                /\ ret' = [err |-> "CloseError", op |-> "restoreFromBackup"]
                /\ UNCHANGED <<schema, metadata, isConnected>>
           ELSE /\ isConnected' = TRUE
                /\ schema' = r.objects
                /\ metadata' = r.metadata
                /\ backupInterval' = (r.err = "none" /\ backups)
                /\ timers' = IF r.err = "none" /\ backups THEN cleared + 1 ELSE cleared
                /\ managerLog' = IF r.err # "none"
                                 THEN managerLog \cup failed
                                          \cup {"Failed to initialize database manager"}
                                 ELSE managerLog \cup m.logged
                /\ ret' = [err |-> r.err, op |-> "restoreFromBackup"]
        /\ UNCHANGED <<txVars, hubVars, storeVars, nextGen, nextUuid, now, pluginVars,
                       reporterVars, filter_presets, isRunning, stopping>>

\* executeStatement('INSERT INTO filter_presets ...')
PresetInsertCall(id, isDefault) ==
    /\ LET r == PresetInsert(filter_presets, id, isDefault)
       IN  /\ filter_presets' = r.presets
           /\ ret' = [err |-> r.err, op |-> "preset insert", id |-> id]
    /\ UNCHANGED <<timers, txVars, hubVars, storeVars, nextGen, nextUuid, now, pluginVars,
                   reporterVars,
                   schema, metadata, isConnected, backupInterval, managerLog, isRunning,
                   stopping>>

\* executeStatement('UPDATE filter_presets SET is_default = ? WHERE id = ?')
PresetUpdateCall(id, isDefault) ==
    /\ LET r == PresetUpdate(schema, filter_presets, id, isDefault)
       IN  /\ filter_presets' = r.presets
           /\ ret' = [err |-> r.err, op |-> "preset update", id |-> id]
    /\ UNCHANGED <<timers, txVars, hubVars, storeVars, nextGen, nextUuid, now, pluginVars,
                   reporterVars,
                   schema, metadata, isConnected, backupInterval, managerLog, isRunning,
                   stopping>>

PresetNext ==
    \/ \E id \in PresetIds, isDefault \in BOOLEAN : PresetInsertCall(id, isDefault)
    \/ \E id \in PresetIds, isDefault \in BOOLEAN : PresetUpdateCall(id, isDefault)

SpecPresets == Init /\ [][PresetNext]_vars

\* A caller creates an entity and fetches it by the id of what create
\* returned.
RunCreateThenFind(run) ==
    /\ nextGen < MaxGen
    /\ LET r == RunCreate(db, run, GenId(nextGen + 1))
       IN  /\ Store(r.db)
           /\ Generated(r)
           /\ ret' = [err |-> r.err, op |-> "create, findById", created |-> r.entity,
                      found |-> IF r.err = "none"
                                THEN RunFindById(r.db, r.entity[1].id) ELSE Null]
    /\ UNCHANGED <<adminVars, hubVars, nextUuid, now, pluginVars, reporterVars>>

ResultCreateThenFind(result) ==
    /\ nextGen < MaxGen
    /\ LET r == ResultCreate(db, result, GenId(nextGen + 1))
       IN  /\ Store(r.db)
           /\ Generated(r)
           /\ ret' = [err |-> r.err, op |-> "create, findById", created |-> r.entity,
                      found |-> IF r.err = "none"
                                THEN ResultFindById(r.db, r.entity[1].id) ELSE Null]
    /\ UNCHANGED <<adminVars, hubVars, nextUuid, now, pluginVars, reporterVars>>

\* The entities created: runs that are under way or have ended, results with
\* and without a screenshot and an error.
RoundTripRuns ==
    {[id |-> NoId, startTime |-> now, endTime |-> endTime, totalTests |-> n,
      failed |-> 0, status |-> st, results |-> <<>>] :
        endTime \in {Undefined, Def(now)}, n \in 0..1, st \in {"running", "completed"}}

RoundTripResults ==
    {[id |-> NoId, runId |-> r, state |-> "failed", screenshot |-> shot,
      error |-> error, startTime |-> now] :
        r \in GenIds, shot \in {Undefined, Def("a.png")},
        error \in {Undefined, Def("AssertionError")}}

RoundTripNext ==
    \/ Tick
    \/ \E run \in RoundTripRuns : RunCreateThenFind(run)
    \/ \E result \in RoundTripResults : ResultCreateThenFind(result)

SpecRoundTrip == Init /\ [][RoundTripNext]_vars

----------------------------------------------------------------------------
\* AuroraPlugin: the Cypress plugin gateway

OptionalKeys == {"endTime", "screenshot", "error"}

\* An entity passed where a patch is expected: every key is present, the
\* optional ones possibly undefined.
AsPatch(entity) ==
    [k \in DOMAIN entity |-> IF k \in OptionalKeys THEN entity[k] ELSE Def(entity[k])]

TestUuid(n) == <<"test", n>>

\* Variant: the run object starts out completed.
NewRun_done(runId) ==
    [id |-> runId, startTime |-> now, endTime |-> Undefined, totalTests |-> 0,
     failed |-> 0, status |-> "completed", results |-> <<>>]

\* The run object built at run-start, by the plugin and by the reporter.
NewRun(runId) ==
    [id |-> runId, startTime |-> now, endTime |-> Undefined, totalTests |-> 0,
     failed |-> 0, status |-> "running", results |-> <<>>]

\* The run object as run-end fills it in.
FinishedRun(run, totalTests, totalFailed, results) ==
    [run EXCEPT !.endTime = Def(now),
                !.totalTests = totalTests,
                !.failed = totalFailed,
                !.status = IF totalFailed > 0 THEN "failed" ELSE "completed",
                !.results = results]

\* The test lists an after:spec event reports (results.results.tests), by state.
SpecTests == {<<>>, <<"passed">>, <<"failed", "passed">>}

\* 'aurora:getCurrentRunId'
getCurrentRunId == IF currentRun = {} THEN NoId ELSE The(currentRun).id

\* handleBeforeRun(details)
HandleBeforeRun ==
    /\ nextUuid < MaxUuid
    /\ nextGen < MaxGen
    /\ LET run == NewRun(Uuid(nextUuid + 1))
           r == RunCreate(db, run, GenId(nextGen + 1))
       IN  /\ currentRun' = {run}
           /\ Store(r.db)
           /\ Generated(r)
           /\ ret' = [err |-> r.err, op |-> "before:run"]   \* logged and thrown again
    /\ nextUuid' = nextUuid + 1
    /\ UNCHANGED <<adminVars, hubVars, now, reporterVars>>

\* handleAfterRun(results), under a configuration with the given retentionDays
HandleAfterRun(totalTests, totalFailed, retentionDays) ==
    /\ IF currentRun = {}
       THEN UNCHANGED <<storeVars, currentRun>>
       ELSE LET run == FinishedRun(The(currentRun), totalTests, totalFailed,
                                   The(currentRun).results)
                r == RunUpdate(db, run.id, AsPatch(run))
            IN  /\ currentRun' = {run}
                /\ IF r.err = "none" /\ retentionDays > 0
                   THEN Store(RunDeleteOlderThan(r.db, now - retentionDays).db)
                   ELSE Store(r.db)
    /\ Handled("after:run")   \* errors are logged only
    /\ UNCHANGED <<adminVars, hubVars, nextGen, nextUuid, now, reporterVars>>

\* The loop of handleAfterSpec over the reported tests: it ends at the first
\* create that throws.
RECURSIVE AfterSpecLoop(_, _, _, _)
AfterSpecLoop(d, gen, run, tests) ==
    IF tests = <<>> THEN [db |-> d, gen |-> gen, run |-> run]
    ELSE LET testResult == [id |-> TestUuid(Len(run.results) + 1),
                            runId |-> run.id,
                            state |-> Head(tests),
                            screenshot |-> Undefined,
                            error |-> IF Head(tests) = "failed"
                                      THEN Def("Error") ELSE Undefined,
                            startTime |-> now]
             r == ResultCreate(d, testResult, GenId(gen + 1))
         IN  IF r.err # "none" THEN [db |-> d, gen |-> gen, run |-> run]
             ELSE AfterSpecLoop(r.db, gen + 1,
                                [run EXCEPT !.results = Append(@, testResult)],
                                Tail(tests))

\* handleAfterSpec(spec, results)
HandleAfterSpec(tests) ==
    /\ nextGen + Len(tests) <= MaxGen
    /\ IF currentRun = {}
       THEN UNCHANGED <<storeVars, currentRun, nextGen>>
       ELSE LET r == AfterSpecLoop(db, nextGen, The(currentRun), tests)
            IN  /\ Store(r.db)
                /\ nextGen' = r.gen
                /\ currentRun' = {r.run}
    /\ Handled("after:spec")   \* errors are logged only
    /\ UNCHANGED <<adminVars, hubVars, nextUuid, now, reporterVars>>

PluginNext ==
    \/ HandleBeforeRun
    \/ \E totalTests \in 0..1, totalFailed \in 0..1, retentionDays \in 0..1 :
           totalFailed <= totalTests /\ HandleAfterRun(totalTests, totalFailed, retentionDays)
    \/ \E tests \in SpecTests : HandleAfterSpec(tests)

----------------------------------------------------------------------------
\* AuroraReporter: the Mocha reporter gateway

Titles == {"t1"}

\* saveTestResult(testResult): a failure is logged only.
SaveTestResult(testResult) ==
    LET r == ResultCreate(db, testResult, GenId(nextGen + 1))
    IN  /\ Store(r.db)
        /\ Generated(r)

\* handleRunStart()
HandleRunStart ==
    /\ nextUuid < MaxUuid
    /\ nextGen < MaxGen
    /\ LET run == NewRun(Uuid(nextUuid + 1))
           r == RunCreate(db, run, GenId(nextGen + 1))
       IN  /\ reporterRun' = {run}
           /\ Store(r.db)
           /\ Generated(r)
    /\ nextUuid' = nextUuid + 1
    /\ Handled("start")
    /\ UNCHANGED <<adminVars, hubVars, now, pluginVars, testResults, nextTest>>

\* handleRunEnd()
HandleRunEnd ==
    /\ IF reporterRun = {}
       THEN UNCHANGED <<storeVars, reporterRun>>
       ELSE LET all == {testResults[t] : t \in DOMAIN testResults}
                \* currentRun.results holds the objects of the map themselves
                run == FinishedRun(The(reporterRun), Cardinality(all),
                                   Cardinality({x \in all : x.state = "failed"}),
                                   {x.id : x \in all})
                r == RunUpdate(db, run.id, AsPatch(run))
            IN  /\ reporterRun' = {run}
                /\ Store(r.db)
    /\ Handled("end")
    /\ UNCHANGED <<adminVars, hubVars, nextGen, nextUuid, now, pluginVars, testResults, nextTest>>

\* The TestResult built by handleTestStart and by handleTestPending.
NewTestResult(pending) ==
    [id |-> TestUuid(nextTest + 1),
     runId |-> IF reporterRun = {} THEN NoId ELSE The(reporterRun).id,
     state |-> "pending",
     pending |-> pending,
     retries |-> 0,
     screenshot |-> Undefined,
     error |-> Undefined,
     startTime |-> now]

\* handleTestStart(test)
HandleTestStart(title) ==
    /\ nextTest < MaxTests
    /\ testResults' = (title :> NewTestResult(FALSE)) @@ testResults
    /\ nextTest' = nextTest + 1
    /\ Handled("test")
    /\ UNCHANGED <<adminVars, hubVars, storeVars, nextGen, nextUuid, now, pluginVars, reporterRun>>

\* handleTestPass(test) and handleTestFail(test, err): state is "passed" or "failed"
HandleTestEnd(title, state) ==
    /\ nextGen < MaxGen
    /\ IF title \notin DOMAIN testResults
       THEN UNCHANGED <<storeVars, nextGen, testResults>>
       ELSE LET testResult ==
                    [testResults[title] EXCEPT
                        !.state = state,
                        !.error = IF state = "failed" THEN Def("Error") ELSE @]
            IN  /\ testResults' = [testResults EXCEPT ![title] = testResult]
                /\ SaveTestResult(testResult)
    /\ Handled(state)
    /\ UNCHANGED <<adminVars, hubVars, nextUuid, now, pluginVars, reporterRun, nextTest>>

HandleTestPass(title) == HandleTestEnd(title, "passed")

HandleTestFail(title) == HandleTestEnd(title, "failed")

\* handleTestPending(test)
HandleTestPending(title) ==
    /\ nextTest < MaxTests
    /\ nextGen < MaxGen
    /\ testResults' = (title :> NewTestResult(TRUE)) @@ testResults
    /\ SaveTestResult(NewTestResult(TRUE))
    /\ nextTest' = nextTest + 1
    /\ Handled("pending")
    /\ UNCHANGED <<adminVars, hubVars, nextUuid, now, pluginVars, reporterRun>>

\* handleTestRetry(test, err)
HandleTestRetry(title) ==
    /\ title \in DOMAIN testResults => testResults[title].retries < MaxRetries
    /\ testResults' = IF title \in DOMAIN testResults
                      THEN [testResults EXCEPT ![title].retries = @ + 1]
                      ELSE testResults
    /\ Handled("retry")
    /\ UNCHANGED <<adminVars, hubVars, storeVars, nextGen, nextUuid, now, pluginVars, reporterRun, nextTest>>

ReporterNext ==
    \/ HandleRunStart
    \/ HandleRunEnd
    \/ \E title \in Titles : HandleTestStart(title)
    \/ \E title \in Titles : HandleTestPass(title)
    \/ \E title \in Titles : HandleTestFail(title)
    \/ \E title \in Titles : HandleTestPending(title)
    \/ \E title \in Titles : HandleTestRetry(title)

\* The ingestion gateways on one store, under every order of the events.  The
\* clock stands still: what a handler writes besides the timestamps does not
\* depend on it.
IngestNext ==
    \/ PluginNext
    \/ ReporterNext

SpecIngest == Init /\ [][IngestNext]_vars

\* The plugin from its construction on: AuroraPlugin.initialize() awaits
\* databaseManager.initialize() before it registers the hooks, the backup
\* timer fires at any time after it is set.
MaintainNext ==
    \/ \E backups \in BOOLEAN, fault \in MaintenanceFaults, freePages \in BOOLEAN :
           ~isConnected /\ ManagerInitialize(backups, fault, freePages)
    \/ \E backupOk \in BOOLEAN : AutomaticBackup(backupOk)
    \/ isConnected /\ PluginNext

InitConstructed ==
    /\ test_runs = EmptyTable
    /\ test_results = EmptyTable
    /\ screenshots = EmptyTable
    /\ nextGen = 0
    /\ nextUuid = 0
    /\ now = 0
    /\ currentRun = {}
    /\ reporterRun = {}
    /\ testResults = <<>>
    /\ nextTest = 0
    /\ ret = [err |-> "none"]
    /\ connectedClients = {}
    /\ ioSockets = {}
    /\ rooms = [s \in Sockets |-> {}]
    /\ inbox = [s \in Sockets |-> <<>>]
    /\ welcoming = {}
    /\ Constructed

SpecMaintain == InitConstructed /\ [][MaintainNext]_vars

\* A database from its first opening on: rows are stored, time passes, and
\* the schema is initialized again at any time.
SchemaNext ==
    \/ \E backups \in BOOLEAN, fault \in MaintenanceFaults, freePages \in BOOLEAN :
           ~isConnected /\ ManagerInitialize(backups, fault, freePages)
    \/ SchemaInitializeCall
    \/ Tick
    \/ \E run \in RunInputs : isConnected /\ RunCreateCall(run)
    \/ \E result \in ResultInputs :
           isConnected /\ result.runId \in GenIds /\ ResultCreateCall(result)

SpecSchema == InitConstructed /\ [][SchemaNext]_vars

\* DatabaseManager.transaction(callback).  The connection is the one that the
\* repositories use: what any task writes between BEGIN and COMMIT or
\* ROLLBACK is written inside the transaction.

\* await this.connection.run('BEGIN TRANSACTION'): SQLite refuses a BEGIN
\* inside a transaction, which the outer catch logs and throws.
TransactionBegin ==
    /\ managerTx = "idle"
    /\ isConnected
    /\ IF sqliteTx = {}
       THEN /\ sqliteTx' = {db}
            /\ managerTx' = "callback"
            /\ ret' = [err |-> "none", op |-> "BEGIN"]
            /\ UNCHANGED managerLog
       ELSE /\ managerLog' = managerLog \cup {"Transaction failed"}
            /\ ret' = [err |-> "SqlError", op |-> "transaction"]
            /\ UNCHANGED <<sqliteTx, managerTx>>
    /\ UNCHANGED <<connTx, timers, hubVars, storeVars, nextGen, nextUuid, now, pluginVars,
                   reporterVars, schema, metadata, filter_presets, isConnected,
                   backupInterval, isRunning, stopping>>

\* The callback stores a test result through the repository.
TransactionCallbackCreate(result) ==
    /\ managerTx = "callback"
    /\ ResultCreateCall(result)

\* The callback has settled: COMMIT when it resolved, ROLLBACK when it threw,
\* after which the error is logged and thrown.
TransactionEnd(resolved) ==
    /\ managerTx = "callback"
    /\ managerTx' = "idle"
    /\ sqliteTx' = {}
    /\ IF resolved
       THEN /\ ret' = [err |-> "none", op |-> "transaction"]
            /\ UNCHANGED <<storeVars, managerLog>>
       ELSE /\ Store(The(sqliteTx))
            /\ managerLog' = managerLog \cup {"Transaction failed"}
            /\ ret' = [err |-> "CallbackError", op |-> "transaction"]
    /\ UNCHANGED <<connTx, timers, hubVars, nextGen, nextUuid, now, pluginVars,
                   reporterVars, schema, metadata, filter_presets, isConnected,
                   backupInterval, isRunning, stopping>>

\* A task in transaction(callback) whose callback stores test results, beside
\* tasks that create runs through the repository.
ManagerTxNext ==
    \/ Tick
    \/ TransactionBegin
    \/ \E result \in ResultInputs :
           result.runId \in GenIds /\ result.state = "passed"
               /\ TransactionCallbackCreate(result)
    \/ \E resolved \in BOOLEAN : TransactionEnd(resolved)
    \/ \E run \in RunInputs : run.status = "running" /\ RunCreateCall(run)

SpecManagerTx == Init /\ [][ManagerTxNext]_vars

\* SqliteConnection.transaction(statements)

\* The statements asked for: one that SQLite runs (it cancels the runs that
\* are running) and one that it rejects (no such table).
CancelRunning == "UPDATE test_runs SET status = 'cancelled' WHERE status = 'running'"
NoSuchTable == "INSERT INTO no_such_table DEFAULT VALUES"

RECURSIVE Lists(_, _)
Lists(S, n) ==
    IF n = 0 THEN {<<>>}
    ELSE Lists(S, n - 1) \cup {Append(l, x) : l \in Lists(S, n - 1), x \in S}

StatementLists == Lists({CancelRunning, NoSuchTable}, MaxStatements)

\* db.run(stmt.sql): the tables afterwards and the number of rows changed.
RunStatement(d, sql) ==
    IF sql = CancelRunning
    THEN LET running == {r \in DOMAIN d.runs : d.runs[r].status = "running"}
         IN  [err |-> "none",
              db |-> [d EXCEPT !.runs = [r \in DOMAIN d.runs |->
                                            IF r \in running
                                            THEN [d.runs[r] EXCEPT !.status = "cancelled"]
                                            ELSE d.runs[r]]],
              changes |-> Cardinality(running)]
    ELSE [err |-> "SqlError", db |-> d, changes |-> 0]

\* transaction(statements) up to the callback of BEGIN TRANSACTION, in which
\* statements.forEach(executeStatement) queues every statement.  With no
\* statement nothing is queued and no callback is left to run.
ConnTransaction(statements) ==
    /\ connTx.promise # "pending"
    /\ IF ~isConnected \/ sqliteTx # {}
       THEN /\ connTx' = [NoCall EXCEPT !.promise = "rejected"]
            /\ ret' = [err |-> IF isConnected THEN "SqlError" ELSE "NotConnected",
                       op |-> "connection.transaction"]
            /\ UNCHANGED sqliteTx
       ELSE /\ sqliteTx' = {db}
            /\ connTx' = [NoCall EXCEPT !.promise = "pending", !.queue = statements,
                                        !.total = Len(statements)]
            /\ ret' = [err |-> "none", op |-> "connection.transaction"]
    /\ UNCHANGED <<managerTx, timers, hubVars, storeVars, nextGen, nextUuid, now, pluginVars,
                   reporterVars, schema, metadata, filter_presets, isConnected,
                   backupInterval, managerLog, isRunning, stopping>>

\* The callback of the next queued statement.  On the first error it sets
\* hasError and evaluates this.db.run('ROLLBACK', ...) with this bound to the
\* Statement, which has no db: a TypeError leaves the callback, and neither
\* ROLLBACK nor reject is reached.  (The host process is taken to outlive the
\* uncaught exception; where it does not, the promise is unsettled as well.)
\* Without error the result is recorded, and COMMIT follows the last one.
ConnStatementDone ==
    /\ connTx.promise = "pending"
    /\ connTx.queue # <<>>
    /\ LET r == RunStatement(db, Head(connTx.queue))
           rest == [connTx EXCEPT !.queue = Tail(@)]
       IN  /\ Store(r.db)
           /\ IF r.err # "none" /\ ~connTx.hasError
              THEN /\ connTx' = [rest EXCEPT !.hasError = TRUE]
                   /\ ret' = [err |-> "TypeError", op |-> "statement"]
                   /\ UNCHANGED sqliteTx
              ELSE IF connTx.hasError
              THEN /\ connTx' = rest
                   /\ ret' = [err |-> "none", op |-> "statement"]
                   /\ UNCHANGED sqliteTx
              ELSE LET done == [rest EXCEPT !.completed = @ + 1,
                                            !.results = Append(@, r.changes)]
                   IN  IF done.completed = done.total
                       THEN /\ connTx' = [done EXCEPT !.promise = "resolved"]
                            /\ sqliteTx' = {}
                            /\ ret' = [err |-> "none", op |-> "COMMIT"]
                       ELSE /\ connTx' = done
                            /\ ret' = [err |-> "none", op |-> "statement"]
                            /\ UNCHANGED sqliteTx
    /\ UNCHANGED <<managerTx, timers, hubVars, nextGen, nextUuid, now, pluginVars,
                   reporterVars, schema, metadata, filter_presets, isConnected,
                   backupInterval, managerLog, isRunning, stopping>>

\* Calls of transaction(statements), one after the other has settled, on a
\* connection that DatabaseManager.transaction(callback) uses as well, while
\* runs are created.  SQLite runs what is queued.
ConnTxNext ==
    \/ \E statements \in StatementLists : ConnTransaction(statements)
    \/ ConnStatementDone
    \/ TransactionBegin
    \/ \E resolved \in BOOLEAN : TransactionEnd(resolved)
    \/ \E run \in RunInputs : run.status = "running" /\ RunCreateCall(run)

SpecConnTx == Init /\ [][ConnTxNext]_vars /\ WF_vars(ConnStatementDone)

\* Any sequence of initialize, restoreFromBackup and close calls on a
\* manager, the timers firing in between.
BackupsNext ==
    \/ \E backups \in BOOLEAN, fault \in MaintenanceFaults, freePages \in BOOLEAN :
           timers < MaxTimers /\ ManagerInitialize(backups, fault, freePages)
    \/ \E closeOk \in BOOLEAN : ManagerClose(closeOk)
    \/ \E exists, closeOk, backups \in BOOLEAN :
           timers < MaxTimers /\ RestoreFromBackup(exists, closeOk, backups, "none", FALSE)
    \/ \E backupOk \in BOOLEAN : AutomaticBackup(backupOk)
    \/ Tick

SpecBackups == InitConstructed /\ [][BackupsNext]_vars

----------------------------------------------------------------------------
\* WebSocketManager: the real-time hub

\* The rooms 'test-runs' and 'test-updates'; RunRoom(id) is `test-run:${id}`.
TestRunsRoom == <<"test-runs", NoId>>
TestUpdatesRoom == <<"test-updates", NoId>>

\* The run ids that clients and emitters name.
HubRuns == {GenId(n) : n \in 1..MaxRoomRuns}

\* The payload { runId } of a request; a client may send none.
Payloads == {Undefined} \cup {Def(runId) : runId \in HubRuns}

\* An event about a run, or about none (NoId).
Msg(event, runId) == <<event, runId>>

\* Nothing has been delivered yet by the call at hand.
NoMail == [s \in Sockets |-> <<>>]

\* socket.emit / io.emit / io.to(room).emit: the event reaches each of the
\* sockets.
Deliver(boxes, sockets, event) ==
    [s \in Sockets |-> IF s \in sockets THEN Append(boxes[s], event) ELSE boxes[s]]

InRoom_none(room) == {}

\* io.to(room): the connected sockets that have joined the room.
InRoom(room) == {s \in ioSockets : room \in rooms[s]}

\* emit(event, data): io.emit reaches the sockets that are open.
emit(boxes, event) == Deliver(boxes, ioSockets, event)

emitToRoom_all(boxes, room, event) == Deliver(boxes, ioSockets, event)

\* emitToRoom(room, event, data)
emitToRoom(boxes, room, event) == Deliver(boxes, InRoom(room), event)

\* A hub handler or emitter is done: err is what it threw or caught.
Hub(op, err) == ret' = [err |-> err, op |-> op]

\* The handler of socket s for request op with payload data is done: err is
\* what it threw or caught.
Request(s, op, data, err) == ret' = [err |-> err, op |-> op, socket |-> s, data |-> data]

\* The catch block of a request handler: socket.emit('error', { message }).
ErrorReply(s) == Deliver(NoMail, {s}, Msg("error", NoId))

\* SELECT * FROM test_runs ORDER BY start_time DESC: the ids of the rows in
\* any order that the clause allows.
FindAll(d) ==
    LET ids == DOMAIN d.runs
        n == Cardinality(ids)
    IN  {runs \in [1..n -> ids] :
            /\ \A i, j \in 1..n : i # j => runs[i] # runs[j]
            /\ \A i, j \in 1..n : i < j => d.runs[runs[i]].start_time >= d.runs[runs[j]].start_time}

\* Array.prototype.slice(0, k)
Slice(list, k) == SubSeq(list, 1, IF Len(list) < k THEN Len(list) ELSE k)

\* handleClientConnection(socket): the socket is registered and
\* sendWelcomeMessage(socket) runs up to its first await.
HandleClientConnection(s) ==
    /\ s \notin ioSockets
    /\ ioSockets' = ioSockets \cup {s}
    /\ connectedClients' = connectedClients \cup {s}
    /\ welcoming' = welcoming \cup {s}
    /\ inbox' = NoMail
    /\ Hub("connection", "none")
    /\ UNCHANGED <<adminVars, storeVars, nextGen, nextUuid, now, pluginVars, reporterVars, rooms>>

\* sendWelcomeMessage(socket) after its awaits: the store answered both
\* queries (storeOk) or one of them threw, which is logged and nothing is sent.
SendWelcomeMessage(s, storeOk) ==
    /\ s \in welcoming
    /\ welcoming' = welcoming \ {s}
    /\ IF storeOk
       THEN \E recentRuns \in FindAll(db) :
                /\ inbox' = Deliver(NoMail, {s}, Msg("welcome", NoId))
                /\ ret' = [err |-> "none", op |-> "welcome", socket |-> s,
                           recentRuns |-> Slice(recentRuns, WelcomeRuns)]
       ELSE /\ inbox' = NoMail
            /\ ret' = [err |-> "PersistenceError", op |-> "welcome", socket |-> s,
                       recentRuns |-> <<>>]
    /\ UNCHANGED <<adminVars, storeVars, nextGen, nextUuid, now, pluginVars, reporterVars,
                   connectedClients, ioSockets, rooms>>

\* on 'subscribe:test-runs': the socket joins before the store is asked.
SubscribeTestRuns(s, storeOk) ==
    /\ s \in ioSockets
    /\ rooms' = [rooms EXCEPT ![s] = @ \cup {TestRunsRoom}]
    /\ inbox' = IF storeOk THEN Deliver(NoMail, {s}, Msg("test-runs:initial", NoId))
                           ELSE ErrorReply(s)
    /\ Request(s, "subscribe:test-runs", Undefined, IF storeOk THEN "none" ELSE "PersistenceError")
    /\ UNCHANGED <<adminVars, storeVars, nextGen, nextUuid, now, pluginVars, reporterVars,
                   connectedClients, ioSockets, welcoming>>

\* on 'subscribe:test-run': reading data.runId of no payload throws inside
\* the try block; otherwise the socket joins before the store is asked.
SubscribeTestRun(s, data, storeOk) ==
    /\ s \in ioSockets
    /\ IF data = Undefined
       THEN /\ rooms' = rooms
            /\ inbox' = ErrorReply(s)
            /\ Request(s, "subscribe:test-run", data, "TypeError")
       ELSE /\ rooms' = [rooms EXCEPT ![s] = @ \cup {RunRoom(data[1])}]
            /\ inbox' = IF ~storeOk THEN ErrorReply(s)
                        ELSE IF data[1] \in DOMAIN test_runs
                             THEN Deliver(NoMail, {s}, Msg("test-run:details", data[1]))
                             ELSE NoMail
            /\ Request(s, "subscribe:test-run", data, IF storeOk THEN "none" ELSE "PersistenceError")
    /\ UNCHANGED <<adminVars, storeVars, nextGen, nextUuid, now, pluginVars, reporterVars,
                   connectedClients, ioSockets, welcoming>>

Leave_runs(joined, room) == {x \in joined : x[1] # room[1]}

\* socket.leave(room)
Leave(joined, room) == joined \ {room}

\* on 'unsubscribe:test-run': the listener has no try block, so reading
\* data.runId of no payload throws out of it, and no handler of uncaught
\* exceptions is installed: the exception is dropped on the way up, or it
\* ends the server process and with it every socket.
UnsubscribeTestRun(s, data) ==
    /\ s \in ioSockets
    /\ IF data = Undefined
       THEN /\ Request(s, "unsubscribe:test-run", data, "TypeError")
            /\ \/ UNCHANGED <<connectedClients, ioSockets, rooms, welcoming>>
               \/ /\ ioSockets' = {}
                  /\ connectedClients' = {}
                  /\ rooms' = [t \in Sockets |-> {}]
                  /\ welcoming' = {}
       ELSE /\ rooms' = [rooms EXCEPT ![s] = Leave(@, RunRoom(data[1]))]
            /\ Request(s, "unsubscribe:test-run", data, "none")
            /\ UNCHANGED <<connectedClients, ioSockets, welcoming>>
    /\ inbox' = NoMail
    /\ UNCHANGED <<adminVars, storeVars, nextGen, nextUuid, now, pluginVars, reporterVars>>

\* on 'get:statistics', 'get:test-result', 'get:flaky-tests': the answer of
\* the store is sent back, or an error event when the store throws.
GetRequests ==
    [request \in {"get:statistics", "get:test-result", "get:flaky-tests"} |->
        CASE request = "get:statistics" -> "statistics:update"
          [] request = "get:test-result" -> "test-result:details"
          [] request = "get:flaky-tests" -> "flaky-tests:update"]

Get(s, request, storeOk) ==
    /\ s \in ioSockets
    /\ inbox' = IF storeOk THEN Deliver(NoMail, {s}, Msg(GetRequests[request], NoId))
                           ELSE ErrorReply(s)
    /\ Request(s, request, Undefined, IF storeOk THEN "none" ELSE "PersistenceError")
    /\ UNCHANGED <<adminVars, storeVars, nextGen, nextUuid, now, pluginVars, reporterVars,
                   connectedClients, ioSockets, rooms, welcoming>>

Deregister_kept(clients, s) == clients

\* this.connectedClients.delete(clientId)
Deregister(clients, s) == clients \ {s}

\* The socket closes: Socket.IO takes it out of its rooms, nothing sent to it
\* later arrives, and its 'disconnect' listener runs
\* handleClientDisconnection(clientId, reason).
HandleClientDisconnection(s) ==
    /\ s \in ioSockets
    /\ ioSockets' = ioSockets \ {s}
    /\ connectedClients' = Deregister(connectedClients, s)
    /\ rooms' = [rooms EXCEPT ![s] = {}]
    /\ welcoming' = welcoming \ {s}
    /\ inbox' = NoMail
    /\ Hub("disconnect", "none")
    /\ UNCHANGED <<adminVars, storeVars, nextGen, nextUuid, now, pluginVars, reporterVars>>

\* An emitter is done with an entity of run runId; it leaves the registry
\* and the rooms alone.
Emitted(op, runId) ==
    /\ ret' = [err |-> "none", op |-> op, runId |-> runId]
    /\ UNCHANGED <<adminVars, storeVars, nextGen, nextUuid, now, pluginVars, reporterVars,
                   connectedClients, ioSockets, rooms, welcoming>>

\* emitTestRunStarted(testRun)
EmitTestRunStarted(runId) ==
    /\ inbox' = emitToRoom(emit(NoMail, Msg("test-run:started", runId)),
                           TestRunsRoom, Msg("test-runs:update", runId))
    /\ Emitted("emitTestRunStarted", runId)

\* emitTestRunCompleted(testRun)
EmitTestRunCompleted(runId) ==
    /\ inbox' = emitToRoom(
                    emitToRoom(emit(NoMail, Msg("test-run:completed", runId)),
                               TestRunsRoom, Msg("test-runs:update", runId)),
                    RunRoom(runId), Msg("test-run:completed", runId))
    /\ Emitted("emitTestRunCompleted", runId)

\* emitTestStarted(testResult)
EmitTestStarted(runId) ==
    /\ inbox' = emitToRoom(NoMail, RunRoom(runId), Msg("test:started", runId))
    /\ Emitted("emitTestStarted", runId)

\* emitTestCompleted(testResult)
EmitTestCompleted(runId) ==
    /\ inbox' = emitToRoom(emitToRoom(NoMail, RunRoom(runId), Msg("test:completed", runId)),
                           TestUpdatesRoom, Msg("test:update", runId))
    /\ Emitted("emitTestCompleted", runId)

\* emitScreenshotTaken(testResult, screenshotPath)
EmitScreenshotTaken(runId) ==
    /\ inbox' = emitToRoom(NoMail, RunRoom(runId), Msg("screenshot:taken", runId))
    /\ Emitted("emitScreenshotTaken", runId)

\* disconnectAll(): every socket is disconnected and the registry cleared.
DisconnectAll ==
    /\ ioSockets' = {}
    /\ connectedClients' = {}
    /\ rooms' = [s \in Sockets |-> {}]
    /\ welcoming' = {}
    /\ inbox' = NoMail
    /\ Hub("disconnectAll", "none")
    /\ UNCHANGED <<adminVars, storeVars, nextGen, nextUuid, now, pluginVars, reporterVars>>

HubNext ==
    \/ \E s \in Sockets : HandleClientConnection(s)
    \/ \E s \in Sockets, storeOk \in BOOLEAN : SendWelcomeMessage(s, storeOk)
    \/ \E s \in Sockets, storeOk \in BOOLEAN : SubscribeTestRuns(s, storeOk)
    \/ \E s \in Sockets, data \in Payloads, storeOk \in BOOLEAN :
           SubscribeTestRun(s, data, storeOk)
    \/ \E s \in Sockets, data \in Payloads : UnsubscribeTestRun(s, data)
    \/ \E s \in Sockets, request \in DOMAIN GetRequests, storeOk \in BOOLEAN :
           Get(s, request, storeOk)
    \/ \E s \in Sockets : HandleClientDisconnection(s)
    \/ \E runId \in HubRuns : EmitTestRunStarted(runId)
    \/ \E runId \in HubRuns : EmitTestRunCompleted(runId)
    \/ \E runId \in HubRuns : EmitTestStarted(runId)
    \/ \E runId \in HubRuns : EmitTestCompleted(runId)
    \/ \E runId \in HubRuns : EmitScreenshotTaken(runId)
    \/ DisconnectAll

----------------------------------------------------------------------------
\* AuroraServer: shutdown

\* The HTTP server accepts connections from listen() until close() is called.
Listening == isRunning /\ stopping \in {"no", "closing database"}

\* stop(), called when no call of it is under way, up to its first wait for
\* the database: a server that is not running returns at once; otherwise webSocketManager.cleanup() runs
\* disconnectAll(), and databaseManager.close() clears the backup timer and
\* asks the connection to close.
StopBegin ==
    /\ stopping \in {"no", "failed", "done"}
    /\ IF isRunning
       THEN /\ ioSockets' = {}
            /\ connectedClients' = {}
            /\ rooms' = [s \in Sockets |-> {}]
            /\ welcoming' = {}
            /\ inbox' = NoMail
            /\ backupInterval' = FALSE
            /\ timers' = IF backupInterval THEN timers - 1 ELSE timers
            /\ stopping' = "closing database"
       ELSE UNCHANGED <<hubVars, backupInterval, timers, stopping>>
    /\ ret' = [err |-> "none", op |-> "stop"]
    /\ UNCHANGED <<txVars, storeVars, nextGen, nextUuid, now, pluginVars, reporterVars,
                   schema, metadata, filter_presets, isConnected, managerLog, isRunning>>

\* The callback of db.close(): with an error, close() logs and throws and
\* so does stop(); without, the connection is closed and stop() goes on to
\* server.close(), after which no connection is accepted.
StopCloseDatabase(closeOk) ==
    /\ stopping = "closing database"
    /\ IF closeOk
       THEN /\ isConnected' = FALSE
            /\ stopping' = "closing server"
            /\ ret' = [err |-> "none", op |-> "stop"]
            /\ UNCHANGED managerLog
       ELSE /\ managerLog' = managerLog \cup {"Failed to close database manager"}
            /\ stopping' = "failed"
            /\ ret' = [err |-> "CloseError", op |-> "stop"]
            /\ UNCHANGED isConnected
    /\ UNCHANGED <<timers, txVars, hubVars, storeVars, nextGen, nextUuid, now, pluginVars,
                   reporterVars,
                   schema, metadata, filter_presets, backupInterval, isRunning>>

\* The callback of server.close(): the HTTP server has emitted 'close', which
\* it does once no connection is open.
StopDone ==
    /\ stopping = "closing server"
    /\ ioSockets = {}
    /\ isRunning' = FALSE
    /\ stopping' = "done"
    /\ ret' = [err |-> "none", op |-> "stop"]
    /\ UNCHANGED <<timers, txVars, hubVars, storeVars, nextGen, nextUuid, now, pluginVars,
                   reporterVars,
                   schema, metadata, filter_presets, isConnected, backupInterval,
                   managerLog>>

\* The running server with its sessions, its backup timer and one call of
\* stop().
StopNext ==
    \/ \E s \in Sockets : Listening /\ HandleClientConnection(s)
    \/ \E s \in Sockets, storeOk \in BOOLEAN : SendWelcomeMessage(s, storeOk /\ isConnected)
    \/ \E s \in Sockets, storeOk \in BOOLEAN : SubscribeTestRuns(s, storeOk /\ isConnected)
    \/ \E s \in Sockets : HandleClientDisconnection(s)
    \/ \E backupOk \in BOOLEAN : AutomaticBackup(backupOk)
    \/ StopBegin
    \/ \E closeOk \in BOOLEAN : StopCloseDatabase(closeOk)
    \/ StopDone

\* The callbacks of db.close() and of server.close() are run by the event
\* loop when they are due.
SpecStop ==
    /\ Init
    /\ [][StopNext]_vars
    /\ WF_vars(\E closeOk \in BOOLEAN : StopCloseDatabase(closeOk))
    /\ WF_vars(StopDone)

\* The plugin gateway beside the hub of the dashboard server.
LiveNext ==
    \/ HubNext
    \/ PluginNext

SpecLive == Init /\ [][LiveNext]_vars

\* The hub beside a store in which the first of the runs that clients name
\* is created, so that a subscription meets a run that is stored and runs
\* that are not.
RoomsNext ==
    \/ HubNext
    \/ \E run \in RunInputs :
           test_runs = EmptyTable /\ run.status = "running" /\ RunCreateCall(run)

SpecHub == Init /\ [][RoomsNext]_vars

\* Connections while runs are created as time passes; the continuation of
\* sendWelcomeMessage is a promise callback, which the event loop runs.
WelcomeNext ==
    \/ Tick
    \/ \E run \in RunInputs : run.status = "running" /\ RunCreateCall(run)
    \/ \E s \in Sockets : HandleClientConnection(s)
    \/ \E s \in Sockets, storeOk \in BOOLEAN : SendWelcomeMessage(s, storeOk)
    \/ \E s \in Sockets : HandleClientDisconnection(s)

SpecWelcome ==
    /\ Init
    /\ [][WelcomeNext]_vars
    /\ \A s \in Sockets : WF_vars(\E storeOk \in BOOLEAN : SendWelcomeMessage(s, storeOk))

----------------------------------------------------------------------------
\* TestResultRepositoryImpl.findFlaky

\* Time is counted in half days here; an ISO timestamp begins with its date,
\* which DATE() also yields.
Date(t) == t \div 2

\* A threshold is a fraction <<numerator, denominator>>; findFlaky(threshold
\* = 0.1) takes 0.1 when none is passed.
Thresholds ==
    {Undefined, Def(<<0, 1>>), Def(<<1, 10>>), Def(<<3, 10>>), Def(<<1, 2>>), Def(<<1, 1>>)}

ThresholdOf(threshold) == IF threshold = Undefined THEN <<1, 10>> ELSE threshold[1]

\* WHERE start_time >= DATE('now', '-30 days'): the timestamp is compared as
\* a string with a date, so every timestamp of the first day counts.
InFlakyWindow(row, today) == Date(row.start_time) >= Date(today) - FlakyWindowDays

\* GROUP BY full_title, file
FlakyGroup(row) == <<row.full_title, row.file>>

GroupRows(results, today, g) ==
    {id \in DOMAIN results : InFlakyWindow(results[id], today) /\ FlakyGroup(results[id]) = g}

\* COUNT(*) and SUM(CASE WHEN state = 'failed' THEN 1 ELSE 0 END)
TotalRuns(results, today, g) == Cardinality(GroupRows(results, today, g))
Failures(results, today, g) ==
    Cardinality({id \in GroupRows(results, today, g) : results[id].state = "failed"})

Having_broken(total, failures, t) ==
    total >= FlakyMinRuns /\ failures * t[2] >= t[1] * total

\* HAVING total_runs >= 5 AND flaky_rate >= ? AND flaky_rate < 1.0
Having(total, failures, t) ==
    /\ total >= FlakyMinRuns
    /\ failures * t[2] >= t[1] * total
    /\ failures < total

\* flaky_rate of g is above that of h, or equal to it.
RateAbove(results, today, g, h) ==
    Failures(results, today, g) * TotalRuns(results, today, h)
        > Failures(results, today, h) * TotalRuns(results, today, g)
RateEqual(results, today, g, h) ==
    Failures(results, today, g) * TotalRuns(results, today, h)
        = Failures(results, today, h) * TotalRuns(results, today, g)

\* ORDER BY flaky_rate DESC, total_runs DESC
FlakyOrdered(results, today, g, h) ==
    \/ RateAbove(results, today, g, h)
    \/ /\ RateEqual(results, today, g, h)
       /\ TotalRuns(results, today, g) >= TotalRuns(results, today, h)

\* Math.round(row.flaky_rate * 100) / 100, in hundredths
FlakyRate(total, failures) == (200 * failures + total) \div (2 * total)

\* MAX(start_time)
LastStart(results, ids) ==
    CHOOSE t \in {results[id].start_time : id \in ids} :
        \A id \in ids : results[id].start_time <= t

\* The FlakyTest of group g.
FlakyTest(results, today, g) ==
    [testTitle |-> g[1],
     specFile |-> g[2],
     flakyRate |-> FlakyRate(TotalRuns(results, today, g), Failures(results, today, g)),
     totalRuns |-> TotalRuns(results, today, g),
     failures |-> Failures(results, today, g),
     lastFailure |-> LastStart(results, GroupRows(results, today, g))]

\* findFlaky(threshold): the lists that the statement may return (groups
\* that tie on both keys come in either order).
FindFlaky(results, today, threshold) ==
    LET t == ThresholdOf(threshold)
        groups == {FlakyGroup(results[id]) :
                      id \in {i \in DOMAIN results : InFlakyWindow(results[i], today)}}
        kept == {g \in groups :
                    Having(TotalRuns(results, today, g), Failures(results, today, g), t)}
        n == Cardinality(kept)
        orders == {o \in [1..n -> kept] :
                      /\ \A i, j \in 1..n : i # j => o[i] # o[j]
                      /\ \A i, j \in 1..n : i < j => FlakyOrdered(results, today, o[i], o[j])}
    IN  {[i \in 1..n |-> FlakyTest(results, today, o[i])] : o \in orders}

FindFlakyCall(threshold) ==
    /\ \E rows \in FindFlaky(test_results, now, threshold) :
           ret' = [err |-> "none", op |-> "findFlaky", threshold |-> threshold, rows |-> rows]
    /\ UNCHANGED <<adminVars, storeVars, hubVars, nextGen, nextUuid, now, pluginVars, reporterVars>>

\* The tests of the stored results: one title in two files.
FlakyGroups == {<<"t1", "f1">>, <<"t1", "f2">>}

\* The clock of the flaky-test queries: the afternoon of day FlakyWindowDays + 1.
FlakyNow == 2 * (FlakyWindowDays + 1) + 1

\* Start times: the first half day of the window, and the half day before it.
WindowStart == 2 * (Date(FlakyNow) - FlakyWindowDays)
BeforeWindow == WindowStart - 1

\* What is stored of one test: failed and passed results of now, failed
\* results from before the window, passed results from the window's first
\* half day.
FlakyCounts ==
    {c \in [failed : 0..MaxFlakyRuns, passed : 0..MaxFlakyRuns, old : 0..1, edge : 0..1] :
        c.failed + c.passed + c.edge <= MaxFlakyRuns}

Rep(row, k) == [i \in 1..k |-> row]

FlakyRow(g, state, at) ==
    [run_id |-> GenId(1), full_title |-> g[1], file |-> g[2], state |-> state,
     start_time |-> at]

FlakyRows(g, c) ==
    Rep(FlakyRow(g, "failed", FlakyNow), c.failed)
        \o Rep(FlakyRow(g, "passed", FlakyNow), c.passed)
        \o Rep(FlakyRow(g, "failed", BeforeWindow), c.old)
        \o Rep(FlakyRow(g, "passed", WindowStart), c.edge)

\* The table of the rows, under the ids generated after the run's.
TableOf(rows) == [id \in {GenId(1 + i) : i \in 1..Len(rows)} |-> rows[id[2] - 1]]

\* One run that started before the window, with the results of two tests;
\* all the results of the second test are of now.
InitFlaky ==
    /\ \E c1 \in FlakyCounts, c2 \in {c \in FlakyCounts : c.old = 0 /\ c.edge = 0} :
           test_results = TableOf(FlakyRows(<<"t1", "f1">>, c1) \o FlakyRows(<<"t1", "f2">>, c2))
    /\ test_runs = (GenId(1) :> [start_time |-> BeforeWindow, end_time |-> NULL,
                                 total_tests |-> 0, failed |-> 0, status |-> "running"])
    /\ screenshots = EmptyTable
    /\ nextGen = 1 + Cardinality(DOMAIN test_results)
    /\ nextUuid = 0
    /\ now = FlakyNow
    /\ currentRun = {}
    /\ reporterRun = {}
    /\ testResults = <<>>
    /\ nextTest = 0
    /\ ret = [err |-> "none"]
    /\ connectedClients = {}
    /\ ioSockets = {}
    /\ rooms = [s \in Sockets |-> {}]
    /\ inbox = [s \in Sockets |-> <<>>]
    /\ welcoming = {}
    /\ Started

FlakyNext == \E threshold \in Thresholds : FindFlakyCall(threshold)

SpecFlaky == InitFlaky /\ [][FlakyNext]_vars

----------------------------------------------------------------------------
\* TestResultRepositoryImpl.findWithFilters

\* A text is a sequence of characters.  LIKE compares ASCII letters without
\* regard to case, and _ in a pattern stands for any one character.
Lower(c) == IF c = "A" THEN "a" ELSE c
LikeChar(p, c) == p = "_" \/ Lower(p) = Lower(c)

\* text LIKE '%' || term || '%'
Like(text, term) ==
    \E k \in 0..(Len(text) - Len(term)) :
        \A i \in 1..Len(term) : LikeChar(term[i], text[k + i])

\* column LIKE ? for a column that may be NULL
ColumnLike(column, term) == \E text \in column : Like(text, term)

\* tags LIKE '%"tag"%' on the column JSON.stringify(tags)
TagLike(column, tag) == \E tags \in column : \E i \in DOMAIN tags : tags[i] = tag

Elements(list) == {list[i] : i \in DOMAIN list}

\* A TestFilter without any key, and the filters asked for.
NoFilter ==
    [status |-> Undefined, specFiles |-> Undefined, dateRange |-> Undefined,
     duration |-> Undefined, search |-> Undefined, tags |-> Undefined,
     browser |-> Undefined, retries |-> Undefined, hasScreenshots |-> Undefined]

OneKeyFilters ==
    {[NoFilter EXCEPT !.status = Def(<<"failed">>)],
     [NoFilter EXCEPT !.status = Def(<<>>)],
     [NoFilter EXCEPT !.specFiles = Def(<<"f2">>)],
     [NoFilter EXCEPT !.dateRange = Def([start |-> 1, end |-> 1])],
     [NoFilter EXCEPT !.duration = Def([min |-> Def(0), max |-> Undefined])],
     [NoFilter EXCEPT !.duration = Def([min |-> Undefined, max |-> Def(0)])],
     [NoFilter EXCEPT !.duration = Def([min |-> Def(5), max |-> Def(5)])],
     [NoFilter EXCEPT !.search = Def(<<"a">>)],
     [NoFilter EXCEPT !.search = Def(<<"a", "_">>)],
     [NoFilter EXCEPT !.search = Def(<<>>)],
     [NoFilter EXCEPT !.tags = Def(<<"smoke">>)],
     [NoFilter EXCEPT !.browser = Def(<<"firefox">>)],
     [NoFilter EXCEPT !.retries = Def(TRUE)],
     [NoFilter EXCEPT !.retries = Def(FALSE)],
     [NoFilter EXCEPT !.hasScreenshots = Def(TRUE)],
     [NoFilter EXCEPT !.hasScreenshots = Def(FALSE)]}

\* Filters of no key, of one key, and of that key beside has-screenshot.
TestFilters ==
    {NoFilter} \cup OneKeyFilters
        \cup {[f EXCEPT !.hasScreenshots = Def(FALSE)] : f \in OneKeyFilters}

\* The limit and offset arguments asked for.
Pages == {<<Undefined, Undefined>>, <<Def(0), Def(1)>>, <<Def(1), Undefined>>, <<Def(1), Def(1)>>}

\* The conditions that findWithFilters pushes for the filter, applied to a row.
StatusCondition(row, f) ==
    (Len(f.status) > 0 /\ Len(f.status[1]) > 0) => row.state \in Elements(f.status[1])

FileCondition(row, f) ==
    (Len(f.specFiles) > 0 /\ Len(f.specFiles[1]) > 0) => row.file \in Elements(f.specFiles[1])

DurationCondition(row, f) ==
    Len(f.duration) > 0 =>
        /\ Len(f.duration[1].min) > 0 => row.duration >= f.duration[1].min[1]
        /\ Len(f.duration[1].max) > 0 => row.duration <= f.duration[1].max[1]

SearchCondition(row, f) ==
    (Len(f.search) > 0 /\ Len(f.search[1]) > 0) =>
        \/ Like(row.title, f.search[1])
        \/ Like(row.full_title, f.search[1])
        \/ ColumnLike(row.error_message, f.search[1])

TagsCondition(row, f) ==
    (Len(f.tags) > 0 /\ Len(f.tags[1]) > 0) =>
        \E tag \in Elements(f.tags[1]) : TagLike(row.tags, tag)

BrowserCondition(row, f) ==
    (Len(f.browser) > 0 /\ Len(f.browser[1]) > 0) =>
        \E name \in row.browser_name : name \in Elements(f.browser[1])

\* if (filters.retries !== undefined && filters.retries) 'retries > 0'
RetriesCondition(row, f) == (Len(f.retries) > 0 /\ f.retries[1]) => row.retries > 0

ScreenshotCondition(row, f) ==
    Len(f.hasScreenshots) > 0 =>
        IF f.hasScreenshots[1] THEN row.screenshot_path # NULL ELSE row.screenshot_path = NULL

DateCondition(row, f) ==
    Len(f.dateRange) > 0 =>
        row.start_time >= f.dateRange[1].start /\ row.start_time <= f.dateRange[1].end

\* WHERE conditions.join(' AND ')
Where(row, f) ==
    /\ StatusCondition(row, f)
    /\ FileCondition(row, f)
    /\ DurationCondition(row, f)
    /\ SearchCondition(row, f)
    /\ TagsCondition(row, f)
    /\ BrowserCondition(row, f)
    /\ RetriesCondition(row, f)
    /\ ScreenshotCondition(row, f)
    /\ DateCondition(row, f)

\* if (limit) ' LIMIT ?', and inside it if (offset) ' OFFSET ?'
Page(list, limit, offset) ==
    IF Len(limit) > 0 /\ limit[1] # 0
    THEN LET skip == IF Len(offset) > 0 THEN offset[1] ELSE 0
             last == IF skip + limit[1] < Len(list) THEN skip + limit[1] ELSE Len(list)
         IN  SubSeq(list, skip + 1, last)
    ELSE list

\* findWithFilters(filters, limit, offset): the lists of ids that the
\* statement may return (rows of one start time come in any order).
FindWithFilters(results, f, limit, offset) ==
    LET kept == {id \in DOMAIN results : Where(results[id], f)}
        n == Cardinality(kept)
        orders == {o \in [1..n -> kept] :
                      /\ \A i, j \in 1..n : i # j => o[i] # o[j]
                      /\ \A i, j \in 1..n :
                             i < j => results[o[i]].start_time >= results[o[j]].start_time}
    IN  {Page(o, limit, offset) : o \in orders}

FindWithFiltersCall(f, limit, offset) ==
    /\ \E rows \in FindWithFilters(test_results, f, limit, offset) :
           ret' = [err |-> "none", op |-> "findWithFilters", filters |-> f,
                   limit |-> limit, rows |-> rows]
    /\ UNCHANGED <<adminVars, storeVars, hubVars, nextGen, nextUuid, now, pluginVars, reporterVars>>

\* A passed result without retries, tags, error or screenshot, and results
\* that differ from it in one respect.
PlainRow ==
    [run_id |-> GenId(1), title |-> <<"a", "b">>, full_title |-> <<"s", "a", "b">>,
     state |-> "passed", duration |-> 0, error_message |-> NULL, screenshot_path |-> NULL,
     retries |-> 0, file |-> "f1", tags |-> NULL, start_time |-> 0,
     browser_name |-> Some("chrome")]

FoundRows ==
    <<PlainRow,
      [PlainRow EXCEPT !.state = "failed", !.error_message = Some(<<"A", "c">>),
                       !.title = <<"b">>, !.full_title = <<"s", "b">>],
      [PlainRow EXCEPT !.file = "f2", !.start_time = 1],
      [PlainRow EXCEPT !.duration = 5, !.title = <<"c">>, !.full_title = <<"s", "c">>],
      [PlainRow EXCEPT !.tags = Some(<<"smoke", "e2e">>)],
      [PlainRow EXCEPT !.tags = Some(<<>>), !.browser_name = Some("firefox")],
      [PlainRow EXCEPT !.browser_name = NULL, !.start_time = 2],
      [PlainRow EXCEPT !.retries = 1, !.start_time = 1],
      [PlainRow EXCEPT !.screenshot_path = Some("a.png")]>>

\* One run with up to MaxFound results, in the order they were stored in.
InitFilter ==
    /\ \E k \in 1..MaxFound : \E pick \in [1..k -> DOMAIN FoundRows] :
           /\ \A i, j \in 1..k : i < j => pick[i] <= pick[j]
           /\ test_results = TableOf([i \in 1..k |-> FoundRows[pick[i]]])
    /\ test_runs = (GenId(1) :> [start_time |-> 0, end_time |-> NULL,
                                 total_tests |-> 0, failed |-> 0, status |-> "running"])
    /\ screenshots = EmptyTable
    /\ nextGen = 1 + Cardinality(DOMAIN test_results)
    /\ nextUuid = 0
    /\ now = MaxTime
    /\ currentRun = {}
    /\ reporterRun = {}
    /\ testResults = <<>>
    /\ nextTest = 0
    /\ ret = [err |-> "none"]
    /\ connectedClients = {}
    /\ ioSockets = {}
    /\ rooms = [s \in Sockets |-> {}]
    /\ inbox = [s \in Sockets |-> <<>>]
    /\ welcoming = {}
    /\ Started

\* A query leaves the store as it is: the first call on a store shows what
\* any call on it returns.
FilterNext ==
    /\ "op" \notin DOMAIN ret
    /\ \E f \in TestFilters, page \in Pages : FindWithFiltersCall(f, page[1], page[2])

SpecFilter == InitFilter /\ [][FilterNext]_vars

----------------------------------------------------------------------------
\* createTestResultsRouter: GET /api/test-results

\* limit = 100 when the query names none.
DefaultLimit == 100

\* Strings compare by code unit: 'A' < '_' < 'a' < 'b' < 'c' < 's'.
CharRank(c) ==
    CASE c = "A" -> 1 [] c = "_" -> 2 [] c = "a" -> 3 [] c = "b" -> 4 [] c = "c" -> 5
      [] OTHER -> 6

RECURSIVE TextLess(_, _)
TextLess(a, b) ==
    IF b = <<>> THEN FALSE
    ELSE IF a = <<>> THEN TRUE
    ELSE IF Head(a) = Head(b) THEN TextLess(Tail(a), Tail(b))
    ELSE CharRank(Head(a)) < CharRank(Head(b))

\* 'failed' < 'passed' < 'pending' < 'skipped'
StateRank(state) ==
    CASE state = "failed" -> 1 [] state = "passed" -> 2 [] state = "pending" -> 3
      [] OTHER -> 4

\* aValue < bValue for the values that switch (sortBy) picks.
ValueLess(a, b, sortBy) ==
    CASE sortBy = "duration" -> a.duration < b.duration
      [] sortBy = "title" -> TextLess(a.title, b.title)
      [] sortBy = "status" -> StateRank(a.state) < StateRank(b.state)
      [] OTHER -> a.start_time < b.start_time

\* testResults.sort(...): the orders the sort may leave the list in.  The
\* comparator answers -1 for two equal values whichever comes first, so rows
\* of one value come in any order.
Sort(results, ids, sortBy, sortOrder) ==
    LET n == Cardinality(ids)
    IN  {o \in [1..n -> ids] :
            /\ \A i, j \in 1..n : i # j => o[i] # o[j]
            /\ \A i, j \in 1..n :
                   i < j => IF sortOrder = "asc"
                            THEN ~ValueLess(results[o[j]], results[o[i]], sortBy)
                            ELSE ~ValueLess(results[o[i]], results[o[j]], sortBy)}

\* title.toLowerCase().includes(search.toLowerCase())
Includes(text, term) ==
    \E k \in 0..(Len(text) - Len(term)) :
        \A i \in 1..Len(term) : Lower(term[i]) = Lower(text[k + i])

\* The callback of testResults.filter(...) when a run id is given.
ClientFilter(row, f) ==
    /\ Len(f.status) > 0 => row.state \in Elements(f.status[1])
    /\ (Len(f.search) > 0 /\ Len(f.search[1]) > 0) => Includes(row.title, f.search[1])
    /\ Len(f.hasScreenshots) > 0 => (row.screenshot_path # NULL) = f.hasScreenshots[1]

\* Array.prototype.slice(offsetNum, offsetNum + limitNum)
SliceFrom(list, offset, limit) ==
    LET last == IF offset + limit < Len(list) THEN offset + limit ELSE Len(list)
    IN  SubSeq(list, offset + 1, last)

\* The lists of ids the route may answer with.  With a run id the rows of
\* the run are filtered, sorted and sliced in memory; without one the
\* statement of findWithFilters pages them and the page is sorted.
ListTestResults(results, runId, f, limit, offset, sortBy, sortOrder) ==
    IF Len(runId) > 0
    THEN LET kept == {id \in DOMAIN results :
                         results[id].run_id = runId[1] /\ ClientFilter(results[id], f)}
         IN  {SliceFrom(o, offset, limit) : o \in Sort(results, kept, sortBy, sortOrder)}
    ELSE UNION {Sort(results, Elements(page), sortBy, sortOrder) :
                   page \in FindWithFilters(results, f, Def(limit), Def(offset))}

ListCall(runId, f, limit, offset, sortBy, sortOrder) ==
    /\ \E rows \in ListTestResults(test_results, runId, f, limit, offset, sortBy, sortOrder) :
           ret' = [err |-> "none", op |-> "GET /api/test-results", runId |-> runId,
                   filters |-> f, limit |-> limit, offset |-> offset,
                   sortBy |-> sortBy, sortOrder |-> sortOrder, rows |-> rows]
    /\ UNCHANGED <<adminVars, storeVars, hubVars, nextGen, nextUuid, now, pluginVars, reporterVars>>

\* The queries asked: the filters that the route can build from a query
\* string, each with the default page and order, and every sort key and order
\* on three pages with no filter or a status.
ListFilters ==
    {f \in OneKeyFilters :
        /\ f.status # Def(<<>>)
        /\ f.search # Def(<<>>)}

SortKeys == {"startTime", "duration", "title", "status"}
SortOrders == {"asc", "desc"}
ListPages == {<<DefaultLimit, 0>>, <<1, 0>>, <<1, 1>>}
RunIds == {Undefined, Def(GenId(1))}

ListFiltered ==
    \E runId \in RunIds, f \in ListFilters :
        ListCall(runId, f, DefaultLimit, 0, "startTime", "desc")

ListSorted ==
    \E runId \in RunIds, f \in {NoFilter, [NoFilter EXCEPT !.status = Def(<<"passed">>)]},
       page \in ListPages, sortBy \in SortKeys, sortOrder \in SortOrders :
        ListCall(runId, f, page[1], page[2], sortBy, sortOrder)

\* A query leaves the store as it is: the first call shows what any call
\* returns.
ListNext ==
    /\ "op" \notin DOMAIN ret
    /\ \/ ListFiltered
       \/ ListSorted

SpecList == InitFilter /\ [][ListNext]_vars

----------------------------------------------------------------------------
\* createTestRunsRouter, createTestResultsRouter: the routes in the order
\* they are registered in

\* A path is the list of its segments below the mount point.  A segment is
\* a word, <<word>>, or a generated id.  A route's pattern names a word or a
\* parameter for each segment.
Word(w) == <<w>>
Lit(w) == [param |-> FALSE, name |-> w]
Param(p) == [param |-> TRUE, name |-> p]
Route(method, pattern) == [method |-> method, pattern |-> pattern]

TestRunsRouter ==
    <<Route("GET", <<>>),
      Route("GET", <<Param("id")>>),
      Route("DELETE", <<Param("id")>>),
      Route("GET", <<Param("id"), Lit("statistics")>>),
      Route("GET", <<Lit("statistics"), Lit("overview")>>),
      Route("GET", <<Lit("statistics"), Lit("trends")>>),
      Route("POST", <<Lit("search")>>),
      Route("DELETE", <<Lit("cleanup")>>)>>

TestResultsRouter ==
    <<Route("GET", <<>>),
      Route("GET", <<Param("id")>>),
      Route("PUT", <<Param("id")>>),
      Route("DELETE", <<Param("id")>>),
      Route("GET", <<Lit("flaky")>>),
      Route("GET", <<Lit("statistics")>>),
      Route("POST", <<Lit("search")>>),
      Route("GET", <<Lit("by-file"), Param("file")>>),
      Route("GET", <<Lit("unique-values"), Param("field")>>)>>

Mounts == {"/api/test-runs", "/api/test-results"}
RouterOf(mount) == IF mount = "/api/test-runs" THEN TestRunsRouter ELSE TestResultsRouter

\* A parameter matches any one segment, a word matches itself.
Matches(route, method, path) ==
    /\ route.method = method
    /\ Len(route.pattern) = Len(path)
    /\ \A i \in DOMAIN path :
           route.pattern[i].param \/ Word(route.pattern[i].name) = path[i]

\* The router hands the request to the first route that matches; none of
\* the handlers calls next().  0 when no route matches.
Dispatch(router, method, path) ==
    LET hits == {i \in DOMAIN router : Matches(router[i], method, path)}
    IN  IF hits = {} THEN 0 ELSE CHOOSE i \in hits : \A j \in hits : i <= j

\* The status a handler answers with after a repository call.
StatusOf(err) == IF err = "none" THEN 200 ELSE IF err = "NotFound" THEN 404 ELSE 500

\* The handlers that read or write one row, or clean up: the store after
\* the handler and the status of its response.  The other handlers query the
\* store and answer 200.
Serve(mount, route, path, body, store, clock) ==
    LET write(r) == [db |-> r.db, status |-> StatusOf(r.err)]
        read(found) == [db |-> store, status |-> IF found THEN 200 ELSE 404]
    IN  IF route.pattern = <<Param("id")>>
        THEN IF mount = "/api/test-runs"
             THEN IF route.method = "GET" THEN read(path[1] \in DOMAIN store.runs)
                  ELSE write(RunDelete(store, path[1]))
             ELSE IF route.method = "GET" THEN read(path[1] \in DOMAIN store.results)
                  ELSE IF route.method = "DELETE" THEN write(ResultDelete(store, path[1]))
                  ELSE IF path[1] \notin DOMAIN store.results THEN read(FALSE)
                  ELSE [db |-> ResultUpdate(store, path[1], body.updates).db,
                        status |-> IF ResultUpdate(store, path[1], body.updates).err = "none"
                                   THEN 200 ELSE 500]
        ELSE IF route.pattern = <<Param("id"), Lit("statistics")>>
        THEN read(path[1] \in DOMAIN store.runs)
        ELSE IF route = Route("DELETE", <<Lit("cleanup")>>)
        THEN write(RunDeleteOlderThan(store, clock - body.retentionDays))
        ELSE read(TRUE)

\* The requests asked: every method on the paths of the routes.
Methods == {"GET", "PUT", "POST", "DELETE"}
Paths ==
    {<<>>, <<Word("flaky")>>, <<Word("statistics")>>, <<Word("cleanup")>>, <<Word("search")>>,
     <<Word("statistics"), Word("overview")>>, <<Word("statistics"), Word("trends")>>,
     <<Word("by-file"), Word("f1")>>, <<Word("unique-values"), Word("files")>>}
        \cup {<<id>> : id \in GenIds}
        \cup {<<id, Word("statistics")>> : id \in GenIds}
Bodies ==
    {[updates |-> [state |-> Def("failed"), error |-> Def("AssertionError")],
      retentionDays |-> d] : d \in {0}}

\* One request: the first matching route's handler answers it, or Express
\* answers 404 when no route of the router matches.
HttpRequest(mount, method, path, body) ==
    LET router == RouterOf(mount)
        i == Dispatch(router, method, path)
    IN  /\ IF i = 0
           THEN /\ ret' = [err |-> "none", op |-> "request", mount |-> mount,
                           method |-> method, path |-> path, route |-> 0, status |-> 404]
                /\ UNCHANGED storeVars
           ELSE LET r == Serve(mount, router[i], path, body, db, now)
                IN  /\ Store(r.db)
                    /\ ret' = [err |-> "none", op |-> "request", mount |-> mount,
                               method |-> method, path |-> path, route |-> i,
                               status |-> r.status]
        /\ UNCHANGED <<adminVars, hubVars, nextGen, nextUuid, now, pluginVars, reporterVars>>

RoutesNext ==
    \/ \E run \in RunInputs : run.status = "running" /\ RunCreateCall(run)
    \/ \E result \in ResultInputs :
           result.runId \in GenIds /\ result.state = "passed" /\ ResultCreateCall(result)
    \/ \E mount \in Mounts, method \in Methods, path \in Paths, body \in Bodies :
           HttpRequest(mount, method, path, body)

SpecRoutes == Init /\ [][RoutesNext]_vars

----------------------------------------------------------------------------
\* TestRunRepositoryImpl.findAll(filters)

\* mapTestStatusToRunStatus(testStatuses)
mapTestStatusToRunStatus(testStatuses) ==
    (IF "failed" \in Elements(testStatuses) THEN {"failed"} ELSE {})
        \cup (IF "passed" \in Elements(testStatuses) THEN {"completed"} ELSE {})

\* The conditions that findAll pushes for the filter, applied to a row.  (The
\* rows of the model keep no browser_name, and no filter asked here has the
\* key browser.)
RunDateCondition(row, f) ==
    Len(f.dateRange) > 0 =>
        row.start_time >= f.dateRange[1].start /\ row.start_time <= f.dateRange[1].end

RunStatusCondition(row, f) ==
    (/\ Len(f.status) > 0
     /\ Len(f.status[1]) > 0
     /\ mapTestStatusToRunStatus(f.status[1]) # {})
        => row.status \in mapTestStatusToRunStatus(f.status[1])

\* findAll(filters): the lists of ids that the statement may return.
FindAllWith(d, f) ==
    LET ids == {r \in DOMAIN d.runs :
                   RunDateCondition(d.runs[r], f) /\ RunStatusCondition(d.runs[r], f)}
        n == Cardinality(ids)
    IN  {runs \in [1..n -> ids] :
            /\ \A i, j \in 1..n : i # j => runs[i] # runs[j]
            /\ \A i, j \in 1..n :
                   i < j => d.runs[runs[i]].start_time >= d.runs[runs[j]].start_time}

FindAllCall(f) ==
    /\ \E rows \in FindAllWith(db, f) :
           ret' = [err |-> "none", op |-> "findAll", filters |-> f, rows |-> rows]
    /\ UNCHANGED <<adminVars, storeVars, hubVars, nextGen, nextUuid, now, pluginVars, reporterVars>>

\* The filters asked of findAll.
RunFilters ==
    {[NoFilter EXCEPT !.status = Def(statuses)] :
        statuses \in {<<>>, <<"failed">>, <<"passed">>, <<"passed", "failed">>,
                      <<"skipped">>, <<"pending", "failed">>}}
        \cup {NoFilter,
              [NoFilter EXCEPT !.dateRange = Def([start |-> 0, end |-> 0])],
              [NoFilter EXCEPT !.dateRange = Def([start |-> 0, end |-> 0]),
                               !.status = Def(<<"passed">>)]}

\* Runs are created running and end completed or failed.
RunFilterNext ==
    \/ Tick
    \/ \E run \in RunInputs : run.status = "running" /\ RunCreateCall(run)
    \/ \E id \in GenIds, status \in {"completed", "failed"} :
           id \in DOMAIN test_runs /\ RunUpdateCall(id, [status |-> Def(status)])
    \/ \E f \in RunFilters : FindAllCall(f)

SpecRunFilter == Init /\ [][RunFilterNext]_vars

----------------------------------------------------------------------------
StoreNext ==
    \/ Tick
    \/ \E run \in RunInputs : RunCreateCall(run)
    \/ \E id \in AnyId, updates \in RunPatches : RunUpdateCall(id, updates)
    \/ \E id \in AnyId : RunDeleteCall(id)
    \/ \E result \in ResultInputs : ResultCreateCall(result)
    \/ \E id \in AnyId, updates \in ResultPatches : ResultUpdateCall(id, updates)
    \/ \E id \in AnyId : ResultDeleteCall(id)
    \/ \E id \in ShotIds, resultId \in AnyId : ScreenshotInsertCall(id, resultId)
    \/ \E retentionDays \in 0..MaxTime : CleanupOldDataCall(retentionDays)

\* The persistence engine under arbitrary calls.
SpecStore == Init /\ [][StoreNext]_vars

\* The calls that bear on ownership: creates that the schema accepts, updates
\* that name the id of a run or the owner of a result, deletes, screenshots
\* and clean-ups.  The updates left out set columns that no foreign key
\* refers to.
CascadeNext ==
    \/ Tick
    \/ \E run \in RunInputs : run.status = "running" /\ RunCreateCall(run)
    \/ \E id \in GenIds : RunUpdateCall(id, [id |-> Def(GenId(1))])
    \/ \E id \in GenIds : RunDeleteCall(id)
    \/ \E result \in ResultInputs :
           result.runId \in GenIds /\ result.state = "passed" /\ ResultCreateCall(result)
    \/ \E id \in GenIds, runId \in GenIds : ResultUpdateCall(id, [runId |-> Def(runId)])
    \/ \E id \in GenIds : ResultDeleteCall(id)
    \/ \E id \in ShotIds, resultId \in GenIds : ScreenshotInsertCall(id, resultId)
    \/ \E retentionDays \in 0..MaxTime : CleanupOldDataCall(retentionDays)

SpecCascade == Init /\ [][CascadeNext]_vars

Next == StoreNext \/ IngestNext \/ HubNext \/ FlakyNext \/ FilterNext

Spec == Init /\ [][Next]_vars
----------------------------------------------------------------------------
\* Properties of the store

Owned(results, runId) == {r \in DOMAIN results : results[r].run_id = runId}
ShotsOf(shots, resultIds) == {x \in DOMAIN shots : shots[x].test_result_id \in resultIds}
Rows == Cardinality(DOMAIN test_runs) + Cardinality(DOMAIN test_results)

\* C1: whatever creates, updates, deletes and retention clean-ups were done,
\* every test_results row's run_id is the id of a test_runs row and every
\* screenshots row's test_result_id is the id of a test_results row.
C1_ReferentialIntegrity ==
    /\ \A r \in DOMAIN test_results : test_results[r].run_id \in DOMAIN test_runs
    /\ \A x \in DOMAIN screenshots : screenshots[x].test_result_id \in DOMAIN test_results

\* C1 happens: owned results and screenshots are in the store after rows were
\* removed from it.
C1_Witness ==
    /\ test_results # EmptyTable
    /\ screenshots # EmptyTable
    /\ nextGen > Rows

\* C2: delete(id) of a run removes that run, the results it owns and the
\* screenshots of those results, and no other row; delete(id) of a result
\* removes that result and its screenshots, and no other row.
C2_DeleteCascades ==
    [][/\ \A id \in DOMAIN test_runs :
            RunDeleteCall(id) =>
                LET goneResults == Owned(test_results, id)
                    goneShots == ShotsOf(screenshots, goneResults)
                IN  /\ test_runs' = Restrict(test_runs, DOMAIN test_runs \ {id})
                    /\ test_results' =
                           Restrict(test_results, DOMAIN test_results \ goneResults)
                    /\ screenshots' =
                           Restrict(screenshots, DOMAIN screenshots \ goneShots)
       /\ \A id \in DOMAIN test_results :
            ResultDeleteCall(id) =>
                /\ test_runs' = test_runs
                /\ test_results' = Restrict(test_results, DOMAIN test_results \ {id})
                /\ screenshots' =
                       Restrict(screenshots,
                                DOMAIN screenshots \ ShotsOf(screenshots, {id}))
      ]_vars

\* C2 happens: a delete has succeeded and left another owner's result and
\* screenshot in the store.
C2_Witness ==
    /\ ret.err = "none"
    /\ nextGen = MaxGen
    /\ Cardinality(DOMAIN test_runs) = 1
    /\ Cardinality(DOMAIN test_results) = 1
    /\ screenshots # EmptyTable

\* The entity field that mapRowToTestRun / mapRowToTestResult fill from a column.
FieldColumn(key) ==
    CASE key = "screenshot" -> "screenshot_path"
      [] key = "error" -> "error_name"
      [] OTHER -> camelToSnakeCase(key)

\* The column value that stands for the field value v.
ColumnValue(column, v) ==
    IF column \in {"end_time", "screenshot_path", "error_name"} THEN Some(v) ELSE v

\* The fields a patch names with a value, the id apart.
RunFields == {"startTime", "endTime", "totalTests", "failed", "status"}
ResultFields == {"runId", "state", "screenshot", "error", "startTime"}

\* A patch of fields of the entity whose values the schema accepts.
RunPatchOk(updates) ==
    /\ DOMAIN updates \subseteq RunFields
    /\ \A k \in DOMAIN updates : Len(updates[k]) > 0
    /\ "status" \in DOMAIN updates => updates.status[1] \in RunStatus

ResultPatchOk(updates) ==
    /\ DOMAIN updates \subseteq ResultFields
    /\ \A k \in DOMAIN updates : Len(updates[k]) > 0
    /\ "state" \in DOMAIN updates => updates.state[1] \in TestStates
    /\ "runId" \in DOMAIN updates => updates.runId[1] \in DOMAIN test_runs

\* The row after exactly the fields of the patch were set.
Patched(row, updates) ==
    [c \in DOMAIN row |->
        IF \E k \in DOMAIN updates : FieldColumn(k) = c
        THEN ColumnValue(c, updates[CHOOSE k \in DOMAIN updates : FieldColumn(k) = c][1])
        ELSE row[c]]

\* C9: update(id, patch) of an existing run or result sets exactly the fields
\* the patch names to the values supplied and leaves every other field of the
\* row and every other row as it was.
C9_UpdateSetsPatch ==
    [][/\ \A id \in DOMAIN test_runs, updates \in RunPatches :
            RunUpdateCall(id, updates) /\ RunPatchOk(updates) =>
                /\ ret'.err = "none"
                /\ test_runs' = [test_runs EXCEPT ![id] = Patched(@, updates)]
                /\ UNCHANGED <<test_results, screenshots>>
       /\ \A id \in DOMAIN test_results, updates \in ResultPatches :
            ResultUpdateCall(id, updates) /\ ResultPatchOk(updates) =>
                /\ ret'.err = "none"
                /\ test_results' = [test_results EXCEPT ![id] = Patched(@, updates)]
                /\ UNCHANGED <<test_runs, screenshots>>
      ]_vars

\* C10: update(id, patch), for every patch of persisted fields and the empty
\* one too, and delete(id) fail with the not-found error when no row has the
\* id, and leave the store as it was.
C10_MissingIdNotFound ==
    [][/\ \A id \in AnyId \ DOMAIN test_runs :
            (\/ RunDeleteCall(id)
             \/ \E updates \in RunPatches :
                    /\ RunSetColumns(updates) \subseteq RunColumns
                    /\ RunUpdateCall(id, updates))
                => ret'.err = "NotFound" /\ UNCHANGED storeVars
       /\ \A id \in AnyId \ DOMAIN test_results :
            (\/ ResultDeleteCall(id)
             \/ \E updates \in ResultPatches :
                    /\ ResultSetColumns(updates) \subseteq ResultColumns
                    /\ ResultUpdateCall(id, updates))
                => ret'.err = "NotFound" /\ UNCHANGED storeVars
      ]_vars

----------------------------------------------------------------------------
\* Properties of the ingestion gateways

Terminal == {"completed", "failed", "cancelled"}

\* C3: when handleBeforeRun has succeeded, test_runs holds a row with status
\* running under the id that 'aurora:getCurrentRunId' returns.
C3_RunStartPersistsCurrentRun ==
    [][HandleBeforeRun /\ ret'.err = "none" =>
          LET runId == The(currentRun').id
          IN  /\ runId \in DOMAIN test_runs'
              /\ test_runs'[runId].status = "running"
      ]_vars

\* C4: handleAfterSpec during a run, with n tests reported, adds exactly n
\* test_results rows, each owned by the current run.
C4_SpecAfterAddsResults ==
    [][\A tests \in SpecTests :
          HandleAfterSpec(tests) /\ currentRun # {} =>
              LET added == DOMAIN test_results' \ DOMAIN test_results
              IN  /\ Cardinality(added) = Len(tests)
                  /\ \A r \in added : test_results'[r].run_id = The(currentRun).id
                  /\ \A r \in DOMAIN test_results : test_results'[r] = test_results[r]
      ]_vars

\* C5: when handleAfterRun has handled the end of the current run, the run's
\* row has an end time, the counts of the summary and the status failed if a
\* test failed, completed otherwise.
C5_RunEndFinalizesRow ==
    [][\A totalTests \in 0..1, totalFailed \in 0..1, retentionDays \in 0..1 :
          HandleAfterRun(totalTests, totalFailed, retentionDays) /\ currentRun # {} =>
              \E id \in DOMAIN test_runs' :
                  /\ id = The(currentRun).id
                  /\ test_runs'[id].end_time # NULL
                  /\ test_runs'[id].total_tests = totalTests
                  /\ test_runs'[id].failed = totalFailed
                  /\ test_runs'[id].status =
                         IF totalFailed > 0 THEN "failed" ELSE "completed"
      ]_vars

\* A run-end event is being handled.
RunEndStep ==
    \/ HandleRunEnd
    \/ \E totalTests \in 0..1, totalFailed \in 0..1, retentionDays \in 0..1 :
           HandleAfterRun(totalTests, totalFailed, retentionDays)

C7_TestResultLifecycle ==
    [][\A title \in Titles :
          /\ HandleTestStart(title) => testResults'[title].state = "pending"
          /\ HandleTestPass(title) /\ title \in DOMAIN testResults =>
                 testResults'[title].state = "passed"
          /\ HandleTestFail(title) /\ title \in DOMAIN testResults =>
                 testResults'[title].state = "failed"
          /\ HandleTestPending(title) => testResults'[title].state = "skipped"
          /\ HandleTestRetry(title) /\ title \in DOMAIN testResults =>
                 testResults'[title].state = "pending"
          /\ (/\ title \in DOMAIN testResults
              /\ testResults[title].state \in {"passed", "failed", "skipped"}
              /\ testResults'[title].id = testResults[title].id)
                 => testResults'[title].state = testResults[title].state
      ]_vars

\* C8: when the gateway has persisted a run at run-start, every connected
\* session receives an event from the hub.
C8_MutationIsBroadcast ==
    [][HandleBeforeRun /\ ret'.err = "none" /\ test_runs' # test_runs =>
          \A s \in connectedClients : inbox'[s] # inbox[s]
      ]_vars

----------------------------------------------------------------------------
\* Properties of the hub

\* The events that are scoped to the room of one run, and their emitters.
RunEvents == {"test:started", "test:completed", "screenshot:taken"}

Emitter ==
    [event \in RunEvents |->
        CASE event = "test:started" -> "emitTestStarted"
          [] event = "test:completed" -> "emitTestCompleted"
          [] event = "screenshot:taken" -> "emitScreenshotTaken"]

\* The call that ends in the next state was request op of socket s.
Requested(s, op) ==
    /\ "socket" \in DOMAIN ret'
    /\ ret'.op = op
    /\ ret'.socket = s

\* The call that ends in the next state was one of the emitters ops.
EmittedBy(ops) ==
    /\ "runId" \in DOMAIN ret'
    /\ ret'.op \in ops

\* What a socket received of the events scoped to run rooms.
RunMail(box) == {i \in DOMAIN box : box[i][1] \in RunEvents}

\* The event is among what a socket received.
Got(box, event) == \E i \in DOMAIN box : box[i] = event

\* C11: a session that subscribes to the room of run R between two events of
\* R is sent the later event and not the earlier one: the subscription itself
\* replays no event of a run room, and an event emitted while the session is
\* in the room reaches it.
C11_SubscriberGetsLaterEventsOnly ==
    [][\A s \in Sockets :
          /\ Requested(s, "subscribe:test-run") => RunMail(inbox'[s]) = {}
          /\ \A event \in RunEvents :
                 (/\ EmittedBy({Emitter[event]})
                  /\ s \in connectedClients
                  /\ RunRoom(ret'.runId) \in rooms[s])
                     => Got(inbox'[s], Msg(event, ret'.runId))]_vars

\* C11 happens: an event of a run has reached a session in the run's room
\* while another connected session, outside the room, received nothing.
C11_Witness ==
    /\ "op" \in DOMAIN ret
    /\ ret.op = "emitTestStarted"
    /\ \E s, t \in connectedClients, runId \in HubRuns :
           /\ runId \in DOMAIN test_runs
           /\ inbox[s] = <<Msg("test:started", runId)>>
           /\ RunRoom(runId) \notin rooms[t]
           /\ inbox[t] = <<>>

\* C12: a test-started, test-completed or screenshot-taken event about run R
\* is received only by connected sessions that are in R's room when it is
\* emitted; a session outside the room, whether it never subscribed or has
\* unsubscribed, receives none.
C12_RunEventsStayInRoom ==
    \A s \in Sockets : \A i \in RunMail(inbox[s]) :
        /\ s \in connectedClients
        /\ RunRoom(inbox[s][i][2]) \in rooms[s]

\* C12 happens: a screenshot event of one run has reached a session in that
\* run's room, and a connected session in the room of another run got nothing.
C12_Witness ==
    /\ "op" \in DOMAIN ret
    /\ ret.op = "emitScreenshotTaken"
    /\ \E s, t \in connectedClients, runId, other \in HubRuns :
           /\ runId # other
           /\ inbox[s] = <<Msg("screenshot:taken", runId)>>
           /\ rooms[t] = {RunRoom(other)}
           /\ inbox[t] = <<>>

\* C13: unsubscribing from the room of run R takes the session out of that
\* room only: its membership of the all-runs room and of the rooms of other
\* runs, and the memberships of other sessions, stay as they were, and the
\* events of the rooms it is still in keep reaching it.
C13_UnsubscribeLeavesOneRoom ==
    [][\A s \in Sockets :
          /\ (Requested(s, "unsubscribe:test-run") /\ ret'.err = "none")
                 => /\ RunRoom(ret'.data[1]) \notin rooms'[s]
                    /\ rooms'[s] \cup {RunRoom(ret'.data[1])}
                           = rooms[s] \cup {RunRoom(ret'.data[1])}
                    /\ \A t \in Sockets \ {s} : rooms'[t] = rooms[t]
                    /\ connectedClients' = connectedClients
          /\ (/\ EmittedBy({"emitTestRunStarted", "emitTestRunCompleted"})
              /\ s \in connectedClients
              /\ TestRunsRoom \in rooms[s])
                 => Got(inbox'[s], Msg("test-runs:update", ret'.runId))
          /\ (/\ EmittedBy({"emitTestRunCompleted"})
              /\ s \in connectedClients
              /\ RunRoom(ret'.runId) \in rooms[s])
                 => inbox'[s][Len(inbox'[s])] = Msg("test-run:completed", ret'.runId)]_vars

\* C13 happens: after an unsubscription a session is in the all-runs room
\* and in the room of one run but not in the room of the other, which the
\* other session is still in.
C13_Witness ==
    /\ "op" \in DOMAIN ret
    /\ ret.op = "unsubscribe:test-run"
    /\ ret.err = "none"
    /\ \E s, t \in connectedClients, runId, other \in HubRuns :
           /\ s # t
           /\ rooms[s] = {TestRunsRoom, RunRoom(other)}
           /\ rooms[t] = {RunRoom(runId)}
           /\ runId # other

\* The welcome message has just reached socket s, carrying the first
\* WelcomeRuns runs of the store by start time, latest first.
Welcomed(s) ==
    /\ "op" \in DOMAIN ret
    /\ ret.op = "welcome"
    /\ ret.socket = s
    /\ inbox[s] = <<Msg("welcome", NoId)>>
    /\ ret.recentRuns \in {Slice(runs, WelcomeRuns) : runs \in FindAll(db)}

\* C14: every session that connects is eventually sent a welcome message
\* with the current statistics and the 5 most recently started runs, latest
\* first (a session that disconnects before it is sent is not counted).
C14_WelcomeArrives ==
    \A s \in Sockets : (s \in welcoming) ~> (Welcomed(s) \/ s \notin connectedClients)

\* C15: the registry of connected sessions holds exactly the sessions that
\* have connected and not yet disconnected, and a session that has
\* disconnected is in no room and receives no event.
C15_RegistryIsOpenSockets ==
    /\ connectedClients = ioSockets
    /\ \A s \in Sockets \ ioSockets :
           /\ rooms[s] = {}
           /\ inbox[s] = <<>>
           /\ s \notin welcoming

\* C15 happens: one of two sessions has just disconnected; the other is
\* registered and still in the all-runs room and a run's room.
C15_Witness ==
    /\ "op" \in DOMAIN ret
    /\ ret.op = "disconnect"
    /\ \E s \in Sockets, runId \in HubRuns :
           /\ connectedClients = {s}
           /\ rooms[s] = {TestRunsRoom, RunRoom(runId)}

\* The requests of a session that the hub answers.
Requests ==
    {"subscribe:test-runs", "subscribe:test-run", "unsubscribe:test-run"}
        \cup DOMAIN GetRequests

\* C16: when a request of a session fails, the session receives an error
\* event, stays connected and keeps every room membership it had.
C16_FailedRequestGetsError ==
    [][\A s \in Sockets, op \in Requests :
          (Requested(s, op) /\ ret'.err # "none")
              => /\ Got(inbox'[s], Msg("error", NoId))
                 /\ s \in ioSockets'
                 /\ s \in connectedClients'
                 /\ rooms[s] \subseteq rooms'[s]]_vars

----------------------------------------------------------------------------
\* Properties of the queries

\* findFlaky has just returned.
FlakyReturned == "op" \in DOMAIN ret /\ ret.op = "findFlaky"

\* The rows of the 30-day window that belong to the test of a reported row.
ReportedRows(r) ==
    {id \in DOMAIN test_results :
        /\ Date(test_results[id].start_time) >= Date(now) - FlakyWindowDays
        /\ test_results[id].full_title = r.testTitle
        /\ test_results[id].file = r.specFile}

ReportedFailed(r) == {id \in ReportedRows(r) : test_results[id].state = "failed"}

\* The (title, file) pairs of the window that the claim counts as flaky at
\* threshold t: at least 5 results, and t <= failures / total < 1.
ClaimedFlaky(t) ==
    {g \in {<<test_results[id].full_title, test_results[id].file>> : id \in DOMAIN test_results} :
        LET rows == {id \in DOMAIN test_results :
                        /\ Date(test_results[id].start_time) >= Date(now) - FlakyWindowDays
                        /\ <<test_results[id].full_title, test_results[id].file>> = g}
            total == Cardinality(rows)
            failures == Cardinality({id \in rows : test_results[id].state = "failed"})
        IN  /\ total >= 5
            /\ t[1] * total <= failures * t[2]
            /\ failures < total}

\* C17: findFlaky(threshold) returns exactly the (full title, file) groups of
\* the results of the 30-day window (those that started on a date at most 30
\* days before today's) that have at least 5 results and a failure ratio
\* r = failures / total with threshold <= r < 1, each once, ordered by ratio
\* descending and then by total descending.
C17_FindFlakyExact ==
    FlakyReturned =>
        LET rows == ret.rows
            n == Len(rows)
        IN  /\ {<<rows[i].testTitle, rows[i].specFile>> : i \in 1..n}
                   = ClaimedFlaky(ThresholdOf(ret.threshold))
            /\ n = Cardinality(ClaimedFlaky(ThresholdOf(ret.threshold)))
            /\ \A i \in 1..n :
                   /\ rows[i].totalRuns = Cardinality(ReportedRows(rows[i]))
                   /\ rows[i].failures = Cardinality(ReportedFailed(rows[i]))
            /\ \A i, j \in 1..n : i < j =>
                   \/ rows[i].failures * rows[j].totalRuns > rows[j].failures * rows[i].totalRuns
                   \/ /\ rows[i].failures * rows[j].totalRuns
                             = rows[j].failures * rows[i].totalRuns
                      /\ rows[i].totalRuns >= rows[j].totalRuns

\* C17 happens: with failed results from before the window in the store,
\* findFlaky has returned two tests, the one of the higher ratio first.
C17_Witness ==
    /\ FlakyReturned
    /\ Len(ret.rows) = 2
    /\ ret.rows[1].failures * ret.rows[2].totalRuns
           > ret.rows[2].failures * ret.rows[1].totalRuns
    /\ \E id \in DOMAIN test_results : test_results[id].start_time = BeforeWindow

\* C18: every test that findFlaky reports has a failure ratio strictly
\* between 0 and 1: a test without a failed result in the window is not
\* reported, whatever the threshold.
C18_FlakyRatioStrictlyInside ==
    FlakyReturned =>
        \A i \in 1..Len(ret.rows) :
            /\ 0 < ret.rows[i].failures
            /\ ret.rows[i].failures < ret.rows[i].totalRuns

\* findWithFilters has just returned the whole result (no LIMIT).
FilterReturned ==
    /\ "op" \in DOMAIN ret
    /\ ret.op = "findWithFilters"
    /\ ret.limit = Undefined

\* The text holds the term, whatever the case of the letters.
Contains(text, term) ==
    \E k \in 0..(Len(text) - Len(term)) :
        \A i \in 1..Len(term) : Lower(term[i]) = Lower(text[k + i])

\* A key of the filter is supplied: it has a value other than the empty
\* list or text.
Supplied(f, key) ==
    /\ Len(f[key]) > 0
    /\ key \in {"status", "specFiles", "search", "tags", "browser"} => Len(f[key][1]) > 0

\* The row satisfies every predicate that the filter supplies.
Satisfies(row, f) ==
    /\ Supplied(f, "status") => row.state \in Elements(f.status[1])
    /\ Supplied(f, "specFiles") => row.file \in Elements(f.specFiles[1])
    /\ Supplied(f, "duration") =>
           /\ Len(f.duration[1].min) > 0 => row.duration >= f.duration[1].min[1]
           /\ Len(f.duration[1].max) > 0 => row.duration <= f.duration[1].max[1]
    /\ Supplied(f, "search") =>
           \/ Contains(row.title, f.search[1])
           \/ Contains(row.full_title, f.search[1])
           \/ \E text \in row.error_message : Contains(text, f.search[1])
    /\ Supplied(f, "tags") =>
           \E tags \in row.tags : Elements(f.tags[1]) \cap Elements(tags) # {}
    /\ Supplied(f, "browser") => row.browser_name \cap Elements(f.browser[1]) # {}
    /\ Supplied(f, "retries") => (row.retries > 0) = f.retries[1]
    /\ Supplied(f, "hasScreenshots") => (row.screenshot_path # NULL) = f.hasScreenshots[1]
    /\ Supplied(f, "dateRange") =>
           row.start_time >= f.dateRange[1].start /\ row.start_time <= f.dateRange[1].end

\* C19: findWithFilters returns exactly the rows that satisfy every supplied
\* predicate (status, file, duration range, search text, tags, browser,
\* retries, has-screenshot, date range), each once, ordered by start time
\* descending.
C19_FindWithFiltersExact ==
    FilterReturned =>
        LET rows == ret.rows
            n == Len(rows)
        IN  /\ Elements(rows)
                   = {id \in DOMAIN test_results : Satisfies(test_results[id], ret.filters)}
            /\ \A i, j \in 1..n : i < j =>
                   /\ rows[i] # rows[j]
                   /\ test_results[rows[i]].start_time >= test_results[rows[j]].start_time

\* cleanupOldData ends in the next state (the clock does not move in a call).
CleanedUp ==
    /\ "retentionDays" \in DOMAIN ret'
    /\ ret'.op = "cleanupOldData"
    /\ now' = now

\* C20: retention clean-up with retentionDays = d deletes exactly the runs
\* that started before now - d days, keeps every other run as it is, and
\* reports as deleted-run count the number of runs it removed.
C20_CleanupDeletesOldRuns ==
    [][CleanedUp =>
          LET old == {r \in DOMAIN test_runs :
                         test_runs[r].start_time < now - ret'.retentionDays}
          IN  /\ DOMAIN test_runs' = DOMAIN test_runs \ old
              /\ \A r \in DOMAIN test_runs' : test_runs'[r] = test_runs[r]
              /\ ret'.deletedRuns = Cardinality(old)
              /\ ret'.deletedRuns
                     = Cardinality(DOMAIN test_runs) - Cardinality(DOMAIN test_runs')]_vars

\* C20 happens: a clean-up has removed a run and kept a later one.
C20_Witness ==
    /\ "retentionDays" \in DOMAIN ret
    /\ ret.deletedRuns >= 1
    /\ test_runs # EmptyTable
    /\ \A r \in DOMAIN test_runs : test_runs[r].start_time >= now - ret.retentionDays

----------------------------------------------------------------------------
\* Properties of start-up, maintenance and shutdown

\* A maintenance operation has failed in the step: a statement of
\* runMaintenance was rejected, or the automatic backup was.
MaintenanceFailed ==
    /\ "fault" \in DOMAIN ret'
    /\ \/ ret'.fault \in {"analyze", "getStats", "backup"}
       \/ ret'.fault = "vacuum" /\ ret'.freePages

Stopped ==
    /\ stopping = "done"
    /\ connectedClients = {}
    /\ ioSockets = {}
    /\ ~backupInterval
    /\ ~isConnected
    /\ ~isRunning

\* C23: once stop() has been called on a running server, it completes at
\* some time, with every session disconnected and deregistered, the backup
\* timer cleared, the connection closed and isRunning false.
C23_StopCompletes == (stopping # "no") ~> Stopped


\* The database has been initialized: every table, index and trigger is
\* there and the schema version is stored.
Initialized ==
    /\ isConnected
    /\ schema = Tables \cup Indexes \cup Triggers
    /\ "schema_version" \in DOMAIN metadata

\* C24: DatabaseSchema.initialize() on an initialized database ends without
\* error and leaves the tables, indexes and triggers, the stored schema
\* version (the metadata row as a whole) and every stored row as they were.
C24_SchemaInitializeIdempotent ==
    [][(/\ Initialized
        /\ "op" \in DOMAIN ret'
        /\ ret'.op = "schema.initialize")
           => /\ ret'.err = "none"
              /\ schema' = schema
              /\ metadata' = metadata
              /\ UNCHANGED <<storeVars, filter_presets>>]_vars

\* C24 happens: the schema has been initialized again, later than the first
\* time and with rows in the store.
C24_Witness ==
    /\ Initialized
    /\ "op" \in DOMAIN ret
    /\ ret.op = "schema.initialize"
    /\ ret.err = "none"
    /\ now > metadata["schema_version"].created_at
    /\ test_runs # EmptyTable
    /\ test_results # EmptyTable


\* C25: whatever rows of filter_presets are inserted and updated, at most one
\* row has is_default set.
C25_AtMostOneDefaultPreset ==
    Cardinality({p \in DOMAIN filter_presets : filter_presets[p].is_default}) <= 1

----------------------------------------------------------------------------
\* Properties of the gateways' error handling and of repeated events

\* C22: when an ingestion handler (run-start, spec-after, run-end, the
\* reporter's result save) could not store the run or a test result, its
\* caller gets the error.
C22_PersistFailurePropagates ==
    [][/\ HandleBeforeRun /\ test_runs' = test_runs => ret'.err # "none"
       /\ \A tests \in SpecTests :
              (/\ HandleAfterSpec(tests)
               /\ currentRun # {}
               /\ Cardinality(DOMAIN test_results' \ DOMAIN test_results) < Len(tests))
                  => ret'.err # "none"
       /\ \A totalTests \in 0..1, totalFailed \in 0..1, retentionDays \in 0..1 :
              (/\ HandleAfterRun(totalTests, totalFailed, retentionDays)
               /\ currentRun # {}
               /\ RunUpdate(db, The(currentRun').id, AsPatch(The(currentRun'))).err # "none")
                  => ret'.err # "none"
       /\ \A title \in Titles :
              (/\ HandleTestPass(title) \/ HandleTestFail(title)
               /\ title \in DOMAIN testResults
               /\ test_results' = test_results)
                  => ret'.err # "none"
      ]_vars


\* C27: when the plugin has handled a run-start, spec-after or run-end
\* event, the same event delivered once more leaves the store as it is: no
\* further test_runs or test_results row, the same status and counts.
C27_DuplicateEventIdempotent ==
    [][LET after == Db(test_runs', test_results', screenshots')
       IN  /\ (HandleBeforeRun /\ nextGen' < MaxGen)
                  => RunCreate(after, NewRun(Uuid(nextUuid' + 1)), GenId(nextGen' + 1)).db
                         = after
           /\ \A tests \in SpecTests :
                  (HandleAfterSpec(tests) /\ currentRun # {})
                      => AfterSpecLoop(after, nextGen', The(currentRun'), tests).db = after
           /\ \A totalTests \in 0..1, totalFailed \in 0..1, retentionDays \in 0..1 :
                  (HandleAfterRun(totalTests, totalFailed, retentionDays) /\ currentRun # {})
                      => LET run == FinishedRun(The(currentRun'), totalTests, totalFailed,
                                                The(currentRun').results)
                             r == RunUpdate(after, run.id, AsPatch(run))
                         IN  (IF r.err = "none" /\ retentionDays > 0
                              THEN RunDeleteOlderThan(r.db, now - retentionDays).db
                              ELSE r.db) = after
      ]_vars

----------------------------------------------------------------------------
\* Properties of the repositories' reads

\* C26: a run or a test result that create has stored, fetched with findById
\* under the id of the entity create returned, is that entity field for
\* field.
C26_CreateThenFindRoundTrip ==
    ("created" \in DOMAIN ret /\ ret.err = "none") => ret.found = ret.created

----------------------------------------------------------------------------
\* Properties of the test-results list endpoint

\* The route has just answered a query.
ListReturned == "op" \in DOMAIN ret /\ ret.op = "GET /api/test-results"

\* The rows that match the query: those of the run asked for, if one is, that
\* satisfy every predicate supplied.
Matching(results, runId, f) ==
    {id \in DOMAIN results :
        /\ Len(runId) > 0 => results[id].run_id = runId[1]
        /\ Satisfies(results[id], f)}

\* The list holds each of the ids once, in order o of key k.
SortedBy(results, list, ids, k, o) ==
    /\ Len(list) = Cardinality(ids)
    /\ Elements(list) = ids
    /\ \A i, j \in 1..Len(list) :
           i < j => IF o = "asc"
                    THEN ~ValueLess(results[list[j]], results[list[i]], k)
                    ELSE ~ValueLess(results[list[i]], results[list[j]], k)

\* The entries at positions F to F + L - 1, counted from 0.
Positions(list, F, L) ==
    SubSeq(list, F + 1, IF F + L < Len(list) THEN F + L ELSE Len(list))

\* C28: the page the list endpoint returns for sort key k, order o, limit L
\* and offset F is the rows at positions F to F + L - 1 of the complete set
\* of matching rows sorted by k in order o.
C28_PageOfSortedMatches ==
    ListReturned =>
        LET ids == Matching(test_results, ret.runId, ret.filters)
            n == Cardinality(ids)
        IN  \E all \in [1..n -> ids] :
                /\ SortedBy(test_results, all, ids, ret.sortBy, ret.sortOrder)
                /\ ret.rows = Positions(all, ret.offset, ret.limit)

\* C29: on the list endpoint every supplied filter predicate restricts the
\* result also when a run id is given: no returned row violates a supplied
\* predicate.
C29_RunIdKeepsEveryPredicate ==
    (ListReturned /\ Len(ret.runId) > 0) =>
        \A i \in DOMAIN ret.rows : Satisfies(test_results[ret.rows[i]], ret.filters)

----------------------------------------------------------------------------
\* Properties of the retention clean-up's dependents

\* C30: retention clean-up never deletes a test result or a screenshot whose
\* owning run is retained: the only dependent rows it removes are those that
\* belong to the runs it deletes.
C30_CleanupKeepsDependentsOfRetainedRuns ==
    [][CleanedUp =>
          /\ \A r \in DOMAIN test_results \ DOMAIN test_results' :
                 test_results[r].run_id \notin DOMAIN test_runs'
          /\ \A s \in DOMAIN screenshots \ DOMAIN screenshots' :
                 \A r \in DOMAIN test_results :
                     r = screenshots[s].test_result_id
                         => test_results[r].run_id \notin DOMAIN test_runs']_vars

\* C31: the deletedResults and deletedScreenshots counts that cleanupOldData
\* returns are the numbers of test_results and screenshots rows that the call
\* removed.
C31_CleanupCountsDependents ==
    [][CleanedUp =>
          /\ ret'.deletedResults
                 = Cardinality(DOMAIN test_results \ DOMAIN test_results')
          /\ ret'.deletedScreenshots
                 = Cardinality(DOMAIN screenshots \ DOMAIN screenshots')]_vars

----------------------------------------------------------------------------
\* Properties of the routers

\* The route registered for the words of the path.
RegisteredFor(router, method, words) ==
    CHOOSE i \in DOMAIN router :
        router[i] = Route(method, [k \in DOMAIN words |-> Lit(words[k])])

\* The request is for one of the three paths.
Asked(mount, method, word) ==
    /\ "route" \in DOMAIN ret
    /\ ret.mount = mount
    /\ ret.method = method
    /\ ret.path = <<Word(word)>>

\* C32: a request to GET /api/test-results/flaky, GET
\* /api/test-results/statistics or DELETE /api/test-runs/cleanup is served by
\* the handler registered for that path, not by the /:id handler registered
\* before it.
C32_NamedRoutesServed ==
    /\ Asked("/api/test-results", "GET", "flaky")
           => ret.route = RegisteredFor(TestResultsRouter, "GET", <<"flaky">>)
    /\ Asked("/api/test-results", "GET", "statistics")
           => ret.route = RegisteredFor(TestResultsRouter, "GET", <<"statistics">>)
    /\ Asked("/api/test-runs", "DELETE", "cleanup")
           => ret.route = RegisteredFor(TestRunsRouter, "DELETE", <<"cleanup">>)

----------------------------------------------------------------------------
\* Properties of findAll

\* findAll has just answered a filter that names statuses.
FoundByStatus ==
    /\ "op" \in DOMAIN ret
    /\ ret.op = "findAll"
    /\ Len(ret.filters.status) > 0
    /\ Len(ret.filters.status[1]) > 0

\* The run status that a test status corresponds to.
Corresponds(testStatus, runStatus) ==
    \/ testStatus = "failed" /\ runStatus = "failed"
    \/ testStatus = "passed" /\ runStatus = "completed"

\* C33: findAll called with a status filter returns only runs whose status
\* corresponds to one of the requested statuses; when none of the requested
\* statuses corresponds to a run status, it returns no runs.
C33_FindAllByStatus ==
    FoundByStatus =>
        \A i \in DOMAIN ret.rows :
            \E testStatus \in Elements(ret.filters.status[1]) :
                Corresponds(testStatus, test_runs[ret.rows[i]].status)

----------------------------------------------------------------------------
\* Properties of the global mirror, the welcome and single delivery

\* The rooms that the requests of the session protocol join: 'test-runs' and
\* the room of a run.
Joinable == {TestRunsRoom} \cup {RunRoom(runId) : runId \in HubRuns}

\* C34: a test-completed event reaches sessions through the global mirror: a
\* connected session that has made the subscriptions the protocol offers is
\* delivered each test-completed event emitted afterwards as test:update.
C34_MirrorReachesSubscribers ==
    [][\A s \in Sockets :
          (/\ EmittedBy({"emitTestCompleted"})
           /\ s \in connectedClients
           /\ rooms[s] = Joinable)
              => Got(inbox'[s], Msg("test:update", ret'.runId))]_vars

\* The emitters of the hub.
Emitters ==
    {"emitTestRunStarted", "emitTestRunCompleted", "emitTestStarted", "emitTestCompleted",
     "emitScreenshotTaken"}

\* C35: the welcome is the first server message a session receives after
\* connecting: no event that the hub emits is delivered to a session whose
\* welcome has not been sent yet.
C35_WelcomeComesFirst ==
    [][\A s \in Sockets :
          (EmittedBy(Emitters) /\ s \in welcoming) => inbox'[s] = <<>>]_vars

\* C36: each session receives each published event at most once: one call of
\* an emitter never delivers the same message twice to a session, whatever
\* rooms the session is in.
C36_DeliveredAtMostOnce ==
    ("op" \in DOMAIN ret /\ ret.op \in Emitters) =>
        \A s \in Sockets : \A i, j \in DOMAIN inbox[s] :
            i # j => inbox[s][i] # inbox[s][j]

----------------------------------------------------------------------------
\* Properties of the backup timer and of transactions

\* C39: a DatabaseManager has at most one automatic-backup timer active at any
\* time, across any sequence of initialize, restoreFromBackup and close
\* calls, and no timer is left to fire once close() has closed the
\* connection.
C39_OneBackupTimer ==
    /\ timers <= 1
    /\ ~isConnected => timers = 0

\* The ROLLBACK of transaction(callback) happens in the step.
RolledBack ==
    /\ managerTx = "callback"
    /\ managerTx' = "idle"
    /\ ret'.err = "CallbackError"

\* C37: a repository write that completed outside any transaction(callback)
\* call is never undone by the rollback of a transaction that another task
\* had open on the connection.  (The callback stores test results only: every
\* run in the store was created outside the call.)
C37_RollbackSparesOutsideWrites ==
    [][RolledBack =>
          \A r \in DOMAIN test_runs :
              r \in DOMAIN test_runs' /\ test_runs'[r] = test_runs[r]]_vars

\* The call of transaction(statements) has settled as it should: resolved
\* with one result per statement or rejected, and no transaction is open.
Settled ==
    /\ \/ connTx.promise = "resolved" /\ Len(connTx.results) = connTx.total
       \/ connTx.promise = "rejected"
    /\ sqliteTx = {}

\* C38: SqliteConnection.transaction(statements) always settles, for every
\* statement list including the empty list and lists with a failing
\* statement: it resolves after COMMIT with one result per statement or
\* rejects after ROLLBACK, and leaves no transaction open on the connection.
C38_TransactionSettles == (connTx.promise = "pending") ~> Settled

====
